---------------------------- MODULE Spec2Model ----------------------------
(***************************************************************************)
(* The resmoke execution engine: the suite executor (executor.py), the job *)
(* worker loop (job.py), the report model (report.py) and TestCase.run     *)
(* (testcases/interface.py).                                               *)
(*                                                                         *)
(* job.py and testcases/interface.py still call the report through its     *)
(* former method names.  Each such call is modelled by the method of       *)
(* report.py that carries the same documented role:                        *)
(*   wasSuccessful -> was_successful      setFailure -> update_test_failure*)
(*   setError -> update_test_error        test(report) -> TestCase.run     *)
(*   startTest/addFailure/stopTest -> start_fail_stop                      *)
(*   startTest/addError/stopTest   -> start_error_stop                     *)
(*   start_test/pass_test/fail_test/error_test/stop_test ->                *)
(*   record_test_start/_success/_failure/_error/_end                       *)
(* and the hook methods are called as their signatures in                  *)
(* hooks/interface.py declare them.                                        *)
(*                                                                         *)
(* Times are abstracted to "unset" (NONE), "set" (SET) or the instant of a  *)
(* combine (combining_time).  The queue class                               *)
(* (utils/queue.py), the exception classes (errors.py) and the concrete    *)
(* fixtures are outside the source tree; the queue is the standard         *)
(* FIFO with get_nowait / task_done / join, fixtures and hooks are         *)
(* environments whose results are chosen nondeterministically.             *)
(***************************************************************************)
EXTENDS Integers, Sequences, FiniteSets, TLC

(***************************************************************************)
(* Bounds of the model.                                                    *)
(***************************************************************************)
NumTests == 3

MaxJobs == 2

MaxHooks == 2

MaxRepeats == 2

\* how many things (hook exceptions, failing tests, fixture crashes) go wrong in one run
MaxFaults == 2

(***************************************************************************)
(* Program constants.                                                      *)
(***************************************************************************)
NONE == "None"

SET == "set"

\* the instant of a combine: `combining_time = time.time()`
combining_time == "combining_time"

STATUS_SUCCESS == "pass"

STATUS_FAIL == "fail"

STATUS_ERROR == "error"

STATUS_TIMEOUT == "timeout"

RETURN_CODE_TIMEOUT == -2

EVG_STATUS_SUCCESS == "pass"

EVG_STATUS_FAIL == "fail"

\* a return code is <<n>>, or <<>> for Python's None
NO_CODE == <<>>

Code(n) == <<n>>

\* return code given to a test outcome when the fixture or a hook's server failed
RETURN_CODE_SERVER == 2

\* return code of an ordinary test failure
RETURN_CODE_FAIL == 1

\* current_execution is <<>> for Python's None, or <<jobs>>: the list of the jobs whose
\* TestReport the execution holds
NO_EXECUTION == <<>>

\* the queue's sentinel value (None in the source)
SENTINEL == 0

(***************************************************************************)
(* Report model: _TestInfo and TestReportInfo (report.py).                 *)
(***************************************************************************)
TestInfo(test_id, dynamic) ==
    [test_id |-> test_id, dynamic |-> dynamic, start_time |-> NONE, end_time |-> NONE,
     status |-> NONE, evergreen_status |-> NONE, return_code |-> NO_CODE]

NewReportInfo ==
    [test_infos |-> <<>>, num_dynamic |-> 0, num_succeeded |-> 0, num_failed |-> 0,
     num_errored |-> 0, num_interrupted |-> 0]

get_by_status(test_infos, status) ==
    SelectSeq(test_infos, LAMBDA ti : ti.status = status)

\* index of the latest outcome with this id; 0 stands for the ValueError
get_by_id(info, test_id) ==
    LET hits == {i \in 1..Len(info.test_infos) : info.test_infos[i].test_id = test_id}
    IN IF hits = {} THEN 0 ELSE CHOOSE i \in hits : \A k \in hits : k <= i

record_test_start(info, test_id, dynamic) ==
    [info EXCEPT !.test_infos = Append(@, [TestInfo(test_id, dynamic) EXCEPT !.start_time = SET]),
                 !.num_dynamic = IF dynamic THEN @ + 1 ELSE @]

\* the assertion of record_test_end and the lookup's ValueError
record_test_end_raises_if_unknown(info, test_id) == get_by_id(info, test_id) = 0

record_test_end_raises(info, test_id) ==
    LET i == get_by_id(info, test_id)
    IN i = 0 \/ info.test_infos[i].end_time # NONE

record_test_end(info, test_id) ==
    [info EXCEPT !.test_infos[get_by_id(info, test_id)].end_time = SET]

record_test_success(info, test_id, return_code) ==
    [info EXCEPT !.test_infos[get_by_id(info, test_id)] =
                     [@ EXCEPT !.status = STATUS_SUCCESS,
                               !.evergreen_status = EVG_STATUS_SUCCESS,
                               !.return_code = return_code],
                 !.num_succeeded = @ + 1]

record_test_error(info, test_id, return_code) ==
    [info EXCEPT !.test_infos[get_by_id(info, test_id)] =
                     [@ EXCEPT !.status = STATUS_ERROR,
                               !.evergreen_status = EVG_STATUS_FAIL,
                               !.return_code = return_code],
                 !.num_errored = @ + 1]

\* dynamic tests are consistency checks: their failures are never silenced
failure_evergreen_status(test_info, report_failure_status) ==
    IF test_info.dynamic THEN EVG_STATUS_FAIL ELSE report_failure_status

record_test_failure(info, test_id, return_code, report_failure_status) ==
    [info EXCEPT !.test_infos[get_by_id(info, test_id)] =
                     [@ EXCEPT !.status = STATUS_FAIL,
                               !.evergreen_status =
                                   failure_evergreen_status(
                                       info.test_infos[get_by_id(info, test_id)],
                                       report_failure_status),
                               !.return_code = return_code],
                 !.num_failed = @ + 1]

recompute_nums(info) ==
    [info EXCEPT !.num_succeeded = Len(get_by_status(info.test_infos, STATUS_SUCCESS)),
                 !.num_failed = Len(get_by_status(info.test_infos, STATUS_FAIL)),
                 !.num_errored = Len(get_by_status(info.test_infos, STATUS_ERROR)),
                 !.num_interrupted = Len(get_by_status(info.test_infos, STATUS_TIMEOUT))]

\* the assertion of update_test_error / update_test_failure and the lookup's ValueError
update_test_raises(info, test_id) ==
    LET i == get_by_id(info, test_id)
    IN i = 0 \/ info.test_infos[i].end_time = NONE

update_test_error(info, test_id, return_code) ==
    recompute_nums(
        [info EXCEPT !.test_infos[get_by_id(info, test_id)] =
                         [@ EXCEPT !.status = STATUS_ERROR,
                                   !.evergreen_status = EVG_STATUS_FAIL,
                                   !.return_code = return_code]])

update_test_failure(info, test_id, return_code, report_failure_status) ==
    recompute_nums(
        [info EXCEPT !.test_infos[get_by_id(info, test_id)] =
                         [@ EXCEPT !.status = STATUS_FAIL,
                                   !.evergreen_status =
                                       failure_evergreen_status(
                                           info.test_infos[get_by_id(info, test_id)],
                                           report_failure_status),
                                   !.return_code = return_code]])

was_successful(info) ==
    info.num_failed = 0 /\ info.num_errored = 0 /\ info.num_interrupted = 0

start_fail_stop(info, test_id, return_code, report_failure_status) ==
    record_test_end(
        record_test_failure(record_test_start(info, test_id, FALSE), test_id, return_code,
                            report_failure_status),
        test_id)

start_error_stop(info, test_id, return_code) ==
    record_test_end(
        record_test_error(record_test_start(info, test_id, FALSE), test_id, return_code),
        test_id)

end_test_info_end_only(test_info, end_time) ==
    IF test_info.end_time = NONE THEN [test_info EXCEPT !.end_time = end_time] ELSE test_info

end_test_info(test_info, end_time) ==
    LET timed == IF test_info.status = NONE \/ test_info.return_code = NO_CODE
                 THEN [test_info EXCEPT !.status = STATUS_TIMEOUT,
                                        !.evergreen_status = EVG_STATUS_FAIL,
                                        !.return_code = Code(RETURN_CODE_TIMEOUT)]
                 ELSE test_info
    IN IF timed.end_time = NONE THEN [timed EXCEPT !.end_time = end_time] ELSE timed

end_report(info, end_time) ==
    [info EXCEPT !.test_infos = [i \in 1..Len(@) |-> end_test_info(@[i], end_time)]]

RECURSIVE concat_infos(_)
concat_infos(report_infos) ==
    IF report_infos = <<>> THEN <<>>
    ELSE end_report(Head(report_infos), combining_time).test_infos
             \o concat_infos(Tail(report_infos))

\* the number of dynamic outcomes a report holds
count_dynamic(info) == Len(SelectSeq(info.test_infos, LAMBDA ti : ti.dynamic))

RECURSIVE sum_dynamic_counted_twice(_)
sum_dynamic_counted_twice(report_infos) ==
    IF report_infos = <<>> THEN 0
    ELSE Head(report_infos).num_dynamic + count_dynamic(Head(report_infos))
             + sum_dynamic_counted_twice(Tail(report_infos))

RECURSIVE sum_dynamic(_)
sum_dynamic(report_infos) ==
    IF report_infos = <<>> THEN 0
    ELSE Head(report_infos).num_dynamic + sum_dynamic(Tail(report_infos))

\* TestReportInfo.combine
combine_last(report_infos) ==
    IF report_infos = <<>> THEN NewReportInfo
    ELSE recompute_nums(end_report(report_infos[Len(report_infos)], combining_time))

combine(report_infos) ==
    recompute_nums([NewReportInfo EXCEPT !.test_infos = concat_infos(report_infos),
                                         !.num_dynamic = sum_dynamic(report_infos)])

(***************************************************************************)
(* TestCase.run (testcases/interface.py).  result is what run_test did:    *)
(* "pass" (returned, return code 0), "TestFailure" (raised it, non-zero    *)
(* return code) or "Other" (raised anything else before a return code was  *)
(* set, so that self.return_code keeps its prior value).  Every path ends  *)
(* in the finally clause; none of the except clauses that a job thread can *)
(* enter re-raises.                                                        *)
(***************************************************************************)
TestResults == {"pass", "TestFailure", "Other"}

\* self.return_code when run_test has returned or raised
test_return_code(result, prior) ==
    CASE result = "pass" -> Code(0)
      [] result = "TestFailure" -> Code(RETURN_CODE_FAIL)
      [] OTHER -> prior

run_outcome(info, test_id, result, prior, report_failure_status) ==
    CASE result = "pass" -> record_test_success(info, test_id, test_return_code(result, prior))
      [] result = "TestFailure" ->
             record_test_failure(info, test_id, test_return_code(result, prior),
                                 report_failure_status)
      [] OTHER -> record_test_error(info, test_id, test_return_code(result, prior))

TestCase_run(info, test_id, dynamic, result, prior, report_failure_status) ==
    record_test_end(
        run_outcome(record_test_start(info, test_id, dynamic), test_id, result, prior,
                    report_failure_status),
        test_id)

(***************************************************************************)
(* Job._execute_test and its hook pipeline (job.py).  A pipeline value is  *)
(* [info, exc, calls]: the job's report, the exception leaving the step    *)
(* ("none" when it returns) and the hook/test calls made so far for this   *)
(* test, in order.  At most one hook call per phase misbehaves: hook       *)
(* number `at` in calling order (0: none) with outcome `exc` / `out`.      *)
(***************************************************************************)
HookExceptions == {"TestFailure", "ServerFailure", "StopExecution", "Other"}

\* a TestCaseHook's dynamic test passing or failing, or an exception of the hook
AfterOutcomes == HookExceptions \cup {"DynPass", "DynFail"}

\* the test id of the queue's test t, and of the dynamic test hook h runs after it
TestId(t) == <<t, 0>>

DynamicId(t, h) == <<t, h>>

\* `for hook in self.hooks`: the position-th hook called is hook hooks_order(n)[position]
hooks_order_reversed(n) == [p \in 1..n |-> n + 1 - p]

hooks_order(n) == [p \in 1..n |-> p]

\* the except clauses of the hook runners: which hook exceptions become a StopExecution
stops_after_hook_if_fail_fast(exc, fail_fast) == fail_fast

stops_after_hook(exc, fail_fast) ==
    exc \in {"StopExecution", "ServerFailure"} \/ (exc = "TestFailure" /\ fail_fast)

hook_raises(exc, fail_fast) == IF stops_after_hook(exc, fail_fast) THEN "StopExecution" ELSE "none"

fail_test(info, test_id, return_code, report_failure_status) ==
    start_fail_stop(info, test_id, return_code, report_failure_status)

run_hooks_before_tests(s, t, n, at, exc, fail_fast, report_failure_status) ==
    LET called == IF at = 0 THEN n ELSE at
        calls == s.calls \o [p \in 1..called |-> <<"before_test", hooks_order(n)[p]>>]
    IN IF at = 0 THEN [s EXCEPT !.calls = calls]
       ELSE CASE exc = "StopExecution" ->
                     [s EXCEPT !.calls = calls, !.exc = hook_raises(exc, fail_fast)]
              [] exc = "ServerFailure" ->
                     [info |-> fail_test(s.info, TestId(t), Code(RETURN_CODE_SERVER),
                                         report_failure_status),
                      exc |-> hook_raises(exc, fail_fast), calls |-> calls]
              [] exc = "TestFailure" ->
                     [info |-> fail_test(s.info, TestId(t), Code(RETURN_CODE_FAIL),
                                         report_failure_status),
                      exc |-> hook_raises(exc, fail_fast), calls |-> calls]
              [] OTHER ->
                     [info |-> start_error_stop(s.info, TestId(t), NO_CODE),
                      exc |-> "Other", calls |-> calls]

\* an update of the test's outcome from an except clause; it raises when the outcome
\* is missing or not stopped
update_or_raise(s, updated, test_id, exc) ==
    IF update_test_raises(s.info, test_id) THEN [s EXCEPT !.exc = "Other"]
    ELSE [s EXCEPT !.info = updated, !.exc = exc]

run_hooks_after_tests(s, t, n, at, out, fail_fast, report_failure_status) ==
    LET called == IF at = 0 \/ out = "DynPass" THEN n ELSE at
        s1 == [s EXCEPT !.calls = @ \o [p \in 1..called |-> <<"after_test", hooks_order(n)[p]>>]]
        h == hooks_order(n)[at]
    IN IF at = 0 THEN s1
       ELSE CASE out = "DynPass" ->
                     [s1 EXCEPT !.info = TestCase_run(@, DynamicId(t, h), TRUE, "pass", NO_CODE,
                                                      report_failure_status)]
              [] out = "DynFail" ->
                     [s1 EXCEPT !.info = TestCase_run(@, DynamicId(t, h), TRUE, "TestFailure",
                                                      NO_CODE, report_failure_status),
                                !.exc = "StopExecution"]
              [] out = "StopExecution" -> [s1 EXCEPT !.exc = hook_raises(out, fail_fast)]
              [] out = "ServerFailure" ->
                     update_or_raise(s1, update_test_failure(s1.info, TestId(t),
                                                             Code(RETURN_CODE_SERVER),
                                                             report_failure_status),
                                     TestId(t), hook_raises(out, fail_fast))
              [] out = "TestFailure" ->
                     update_or_raise(s1, update_test_failure(s1.info, TestId(t),
                                                             Code(RETURN_CODE_FAIL),
                                                             report_failure_status),
                                     TestId(t), hook_raises(out, fail_fast))
              [] OTHER ->
                     update_or_raise(s1, update_test_error(s1.info, TestId(t),
                                                           Code(RETURN_CODE_SERVER)),
                                     TestId(t), "Other")

\* test.return_code before the test runs: None, or what _fail_test stored in it
prior_return_code(b_exc) ==
    IF b_exc = "TestFailure" THEN Code(RETURN_CODE_FAIL) ELSE NO_CODE

\* `test(test_report)`
run_test(s, t, result, prior, report_failure_status) ==
    [s EXCEPT !.info = TestCase_run(@, TestId(t), FALSE, result, prior, report_failure_status),
              !.calls = Append(@, <<"test", 0>>)]

\* `if self.suite_options.fail_fast and not test_report.wasSuccessful()`
fail_fast_stops_never(fail_fast, info) == FALSE

fail_fast_stops(fail_fast, info) == fail_fast /\ ~was_successful(info)

\* `if not self.fixture.is_running()`: the outcome becomes a failure, the job stops
fixture_crashed_unrecorded(s, t, report_failure_status) == [s EXCEPT !.exc = "StopExecution"]

fixture_crashed(s, t, report_failure_status) ==
    update_or_raise(s, update_test_failure(s.info, TestId(t), Code(RETURN_CODE_SERVER),
                                           report_failure_status),
                    TestId(t), "StopExecution")

\* whether a fixture that is not running stops the job ("Always fail fast if the fixture
\* fails")
crash_stops_if_fail_fast(fail_fast) == fail_fast

crash_stops(fail_fast) == TRUE

execute_test(info, t, n, inp, fail_fast, report_failure_status) ==
    LET s0 == [info |-> info, exc |-> "none", calls |-> <<>>]
        s1 == run_hooks_before_tests(s0, t, n, inp.b_at, inp.b_exc, fail_fast,
                                     report_failure_status)
        s2 == run_test(s1, t, inp.result, prior_return_code(inp.b_exc), report_failure_status)
        s3 == fixture_crashed(s2, t, report_failure_status)
    IN IF s1.exc # "none" THEN s1
       ELSE IF fail_fast_stops(fail_fast, s2.info) THEN [s2 EXCEPT !.exc = "StopExecution"]
       ELSE IF ~inp.running
            THEN IF crash_stops(fail_fast) \/ s3.exc = "Other" THEN s3
                 ELSE run_hooks_after_tests([s3 EXCEPT !.exc = "none"], t, n, inp.a_at,
                                            inp.a_out, fail_fast, report_failure_status)
       ELSE run_hooks_after_tests(s2, t, n, inp.a_at, inp.a_out, fail_fast,
                                  report_failure_status)

NominalInput ==
    [b_at |-> 0, b_exc |-> "none", result |-> "pass", running |-> TRUE, a_at |-> 0,
     a_out |-> "none"]

\* the number of things that go wrong in one test's execution
FaultCount(inp) ==
    (IF inp.b_at > 0 THEN 1 ELSE 0) + (IF inp.result # "pass" THEN 1 ELSE 0)
    + (IF inp.running THEN 0 ELSE 1) + (IF inp.a_at > 0 THEN 1 ELSE 0)

\* the inputs of one test's execution: at most one misbehaving hook call per phase, at
\* most `budget` faults, and nothing chosen for a step the pipeline does not reach
TestInputs(n, fail_fast, budget) ==
    {inp \in [b_at : 0..n, b_exc : HookExceptions \cup {"none"}, result : TestResults,
              running : BOOLEAN, a_at : 0..n, a_out : AfterOutcomes \cup {"none"}] :
        /\ (inp.b_at = 0) = (inp.b_exc = "none")
        /\ (inp.a_at = 0) = (inp.a_out = "none")
        /\ FaultCount(inp) <= budget
        /\ (inp.b_at > 0 /\ (fail_fast \/ inp.b_exc # "TestFailure"))
               => (inp.result = "pass" /\ inp.running /\ inp.a_at = 0)
        /\ (~inp.running \/ (fail_fast /\ (inp.result # "pass" \/ inp.b_at > 0)))
               => inp.a_at = 0}

(***************************************************************************)
(* State of one suite run: the executor's main thread, the job threads,    *)
(* the shared queue and coordinator, the fixtures and the reports.         *)
(***************************************************************************)
VARIABLES
    teardown_calls,   \* history: how often teardown was called on each job's fixture
    hook,             \* a TestCaseHook, its hook test case and the tests of the job using it
    report,           \* a TestReportInfo on its own, with the last call made on it
    test_case,        \* a TestCase on its own, inside and after its run()
    suite_hooks,      \* per job run: how many hooks had before_suite / after_suite called
    resmoke,          \* the resmoke process: its suites, their reports, its position, its exit
    stepdown,         \* the ContinuousStepdown hook's thread, its events and the job using it
    options,          \* suite options: fail_fast, num_jobs, num_repeats, hooks, failure status
    epc,              \* position of the executor's main thread
    idx,              \* index of the main thread's current `for job in self._jobs` loop
    raised,           \* exception propagating in the main thread ("none" if none)
    num_repeats,      \* _run's local counter
    last_execution,   \* _run's local flag
    suite_report,     \* SuiteReport: executions, current_execution, interrupted, return_code
    test_report,      \* the TestReportInfo of each job's TestReport for this execution
    coordinator,      \* JobCoordinator
    queue,            \* items of the test queue
    unfinished_tasks, \* the queue's count of items put and not yet task_done
    fixture,          \* state of each job's fixture
    jpc,              \* position of each job thread
    cur,              \* the test each job took from the queue last
    last,             \* history: inputs, exception and calls of each job's last executed test
    run_count,        \* history: how often each test was run in this execution
    faults            \* history: how many things went wrong so far (bounded by MaxFaults)

vars ==
    <<teardown_calls, hook, report, test_case, resmoke, stepdown, options, suite_hooks,
      epc, idx, raised, num_repeats, last_execution, suite_report, test_report,
      coordinator, queue, unfinished_tasks, fixture, jpc, cur, last, run_count, faults>>

AllJobs == 1..MaxJobs

Tests == 1..NumTests

\* TestSuiteExecutor._make_jobs: only as many jobs as there are tests
make_jobs(num_jobs, num_tests) == IF num_tests < num_jobs THEN num_tests ELSE num_jobs

Jobs == 1..make_jobs(options.num_jobs, NumTests)

\* TestSuiteExecutor._make_test_queue: every test, then one sentinel per job
make_test_queue_one_sentinel(num_tests, num_jobs) ==
    [i \in 1..num_tests |-> i] \o <<SENTINEL>>

make_test_queue(num_tests, num_jobs) ==
    [i \in 1..num_tests |-> i] \o [i \in 1..num_jobs |-> SENTINEL]

\* a job run in which no hook's suite method has been called and the loop has not ended
NoSuiteCalls == [before |-> 0, after |-> 0, loop_ended |-> FALSE]

NoLast == [t |-> 0, inp |-> NominalInput, exc |-> "none", calls |-> <<>>]

\* the suite configurations explored: several jobs run one execution without hooks; a
\* single job runs with hooks and with repeated executions
SuiteOptions ==
    {o \in [fail_fast : BOOLEAN, num_jobs : 1..MaxJobs, num_repeats : 1..MaxRepeats,
            num_hooks : 0..MaxHooks, report_failure_status : {EVG_STATUS_FAIL}] :
        o.num_jobs > 1 => (o.num_hooks = 0 /\ o.num_repeats = 1)}

\* no resmoke process around the executor, and no ContinuousStepdown hook
ResmokeIdle == [pc |-> "idle"]

StepdownIdle == [thread |-> "idle", job |-> "idle"]

\* the executor, its jobs and their fixtures before the run, whatever the suite options
ExecutorStart ==
    /\ epc = "setup_fixtures"
    /\ idx = 1
    /\ raised = "none"
    /\ num_repeats = 0
    /\ last_execution = FALSE
    /\ suite_report = [executions |-> <<>>, current_execution |-> NO_EXECUTION,
                       interrupted |-> FALSE, return_code |-> 0]
    /\ test_report = [j \in AllJobs |-> NewReportInfo]
    /\ coordinator = [interrupted |-> FALSE, teardown_error |-> FALSE,
                      teardown_on_exit |-> FALSE]
    /\ queue = <<>>
    /\ unfinished_tasks = 0
    /\ fixture = [j \in AllJobs |-> "unconfigured"]
    /\ teardown_calls = [j \in AllJobs |-> 0]
    /\ jpc = [j \in AllJobs |-> "idle"]
    /\ cur = [j \in AllJobs |-> SENTINEL]
    /\ last = [j \in AllJobs |-> NoLast]
    /\ run_count = [t \in Tests |-> 0]
    /\ faults = 0
    /\ suite_hooks = [j \in AllJobs |-> NoSuiteCalls]

\* a TestSuiteExecutor as constructed for one suite
ExecutorInit ==
    /\ options \in SuiteOptions
    /\ ExecutorStart

\* no TestReportInfo and no TestCase apart from those of the executor's jobs
ReportIdle == [op |-> "idle"]

TestCaseIdle == [pc |-> "idle"]

HookIdle == [pc |-> "idle"]

Init ==
    /\ ExecutorInit
    /\ hook = HookIdle
    /\ report = ReportIdle
    /\ test_case = TestCaseIdle
    /\ resmoke = ResmokeIdle
    /\ stepdown = StepdownIdle

(***************************************************************************)
(* SuiteReport (report.py) and the executor's use of it.                   *)
(***************************************************************************)
\* `assert self.current_execution is None` of record_execution_start
start_asserted(sr) == sr.current_execution = NO_EXECUTION

\* `assert self.current_execution is not None` of record_execution_end and
\* create_test_report
in_flight_asserted(sr) == sr.current_execution # NO_EXECUTION

record_execution_start(sr) == [sr EXCEPT !.current_execution = << <<>> >>]

create_test_report(sr, j) == [sr EXCEPT !.current_execution = <<Append(@[1], j)>>]

record_execution_end_keeps_current(sr, reports) ==
    LET jobs == sr.current_execution[1]
    IN [sr EXCEPT !.executions = Append(@, combine([i \in 1..Len(jobs) |-> reports[jobs[i]]]))]

record_execution_end(sr, reports) ==
    LET jobs == sr.current_execution[1]
    IN [sr EXCEPT !.executions = Append(@, combine([i \in 1..Len(jobs) |-> reports[jobs[i]]])),
                  !.current_execution = NO_EXECUTION]

\* SuiteReport._get_report_summary: the counts of the summary line of one report
num_run(info) ==
    info.num_succeeded + info.num_errored + (info.num_failed + info.num_interrupted)

num_skipped(nb_tests, info) == nb_tests + info.num_dynamic - num_run(info)

\* SuiteReport.get_last_execution_summary: the skipped counts it shows
last_execution_skipped(nb_tests, sr) ==
    IF sr.executions = <<>> THEN {}
    ELSE {num_skipped(nb_tests, sr.executions[Len(sr.executions)])}

\* SuiteReport._get_single_execution_summary / _get_multi_executions_summary: the skipped
\* counts shown for the executions, with the combined line when there are several
summary_skipped(nb_tests, executions) ==
    IF Len(executions) = 0 THEN {}
    ELSE IF Len(executions) = 1 THEN {num_skipped(nb_tests, executions[1])}
    ELSE {num_skipped(nb_tests, combine(executions))}
             \cup {num_skipped(nb_tests, executions[i]) : i \in 1..Len(executions)}

\* SuiteReport._get_all_executions: the recorded executions, and the ongoing one if it
\* holds any report
get_all_executions(sr, reports) ==
    IF sr.current_execution # NO_EXECUTION /\ sr.current_execution[1] # <<>>
    THEN LET jobs == sr.current_execution[1]
         IN Append(sr.executions, combine([i \in 1..Len(jobs) |-> reports[jobs[i]]]))
    ELSE sr.executions

get_combined_report(sr, reports) == combine(get_all_executions(sr, reports))

set_interrupted(sr, return_code) ==
    [sr EXCEPT !.interrupted = TRUE, !.return_code = return_code]

set_failed(sr, return_code) == [sr EXCEPT !.return_code = return_code]

\* TestSuiteExecutor.run: the suite's result for the exception that left _run
run_result_unhandled(sr, exc) == sr

run_result(sr, exc) ==
    CASE exc = "none" -> sr
      [] exc = "UserInterrupt" -> set_interrupted(sr, 130)
      [] exc = "IOError" -> set_interrupted(sr, 74)
      [] OTHER -> set_failed(sr, 2)

(***************************************************************************)
(* The executor's main thread (executor.py).                               *)
(***************************************************************************)
Finish(exc) ==
    /\ epc' = "finished"
    /\ raised' = exc
    /\ suite_report' = run_result(suite_report, exc)

\* _setup_fixtures: the first `for job in self._jobs` ends after the last job's setup()
setup_loop_ends_at_once(i, num_jobs) == TRUE

setup_loop_ends(i, num_jobs) == i >= num_jobs

\* _setup_fixtures, first loop: job.fixture.setup()
SetupFixture ==
    /\ epc = "setup_fixtures"
    /\ \E ok \in BOOLEAN :
          IF ok
          THEN /\ fixture' = [fixture EXCEPT ![idx] = "set_up"]
               /\ IF ~setup_loop_ends(idx, Cardinality(Jobs))
                  THEN idx' = idx + 1 /\ epc' = epc
                  ELSE idx' = 1 /\ epc' = "await_ready"
               /\ UNCHANGED <<raised, suite_report>>
          ELSE /\ Finish("FixtureError")
               /\ UNCHANGED <<fixture, idx>>
    /\ UNCHANGED <<resmoke, stepdown, options, hook, teardown_calls, report, test_case,
                   suite_hooks, num_repeats, last_execution, test_report, coordinator, queue,
                   unfinished_tasks, jpc, cur, last, run_count, faults>>

\* _setup_fixtures, second loop: job.fixture.await_ready(); then _run enters its loop
AwaitReady ==
    /\ epc = "await_ready"
    /\ \E ok \in BOOLEAN :
          IF ok
          THEN /\ fixture' = [fixture EXCEPT ![idx] = "ready"]
               /\ IF idx + 1 \in Jobs
                  THEN idx' = idx + 1 /\ epc' = epc /\ num_repeats' = num_repeats
                  ELSE idx' = 1 /\ epc' = "loop" /\ num_repeats' = options.num_repeats
               /\ UNCHANGED <<raised, suite_report>>
          ELSE /\ Finish("FixtureError")
               /\ UNCHANGED <<fixture, idx, num_repeats>>
    /\ UNCHANGED <<resmoke, stepdown, options, hook, teardown_calls, report, test_case,
                   suite_hooks, last_execution, test_report, coordinator, queue,
                   unfinished_tasks, jpc, cur, last, run_count, faults>>

\* `while num_repeats > 0`: a new queue and record_execution_start, or the end of _run
LoopHead ==
    /\ epc = "loop"
    /\ IF num_repeats > 0
       THEN /\ last_execution' = (num_repeats = 1)
            /\ queue' = make_test_queue(NumTests, Cardinality(Jobs))
            /\ unfinished_tasks' = Len(queue')
            /\ suite_report' = record_execution_start(suite_report)
            /\ test_report' = [j \in AllJobs |-> NewReportInfo]
            /\ run_count' = [t \in Tests |-> 0]
            /\ epc' = "start_jobs"
            /\ idx' = 1
            /\ UNCHANGED raised
       ELSE /\ IF last_execution
               THEN Finish("none") /\ idx' = idx
               ELSE epc' = "teardown_fixtures" /\ idx' = 1 /\ UNCHANGED <<raised,
                                                                          suite_report>>
            /\ UNCHANGED <<last_execution, queue, unfinished_tasks, test_report, run_count>>
    /\ UNCHANGED <<resmoke, stepdown, options, hook, teardown_calls, report, test_case,
                   suite_hooks, num_repeats, coordinator, fixture, jpc, cur, last, faults>>

\* _start_job: a TestReport for the job, and its thread
StartJob ==
    /\ epc = "start_jobs"
    /\ suite_report' = create_test_report(suite_report, idx)
    /\ jpc' = [jpc EXCEPT ![idx] = "before_suite"]
    /\ suite_hooks' = [suite_hooks EXCEPT ![idx] = NoSuiteCalls]
    /\ IF idx + 1 \in Jobs
       THEN idx' = idx + 1 /\ epc' = epc
       ELSE idx' = 1 /\ epc' = "wait_queue"
    /\ UNCHANGED <<resmoke, stepdown, options, hook, teardown_calls, report, test_case, raised,
                   num_repeats, last_execution, test_report, coordinator, queue,
                   unfinished_tasks, fixture, cur, last, run_count, faults>>

\* _wait_for_queue_processing: test_queue.join returns once every item is task_done
WaitForQueue ==
    /\ epc = "wait_queue"
    /\ unfinished_tasks = 0
    /\ epc' = "join_threads"
    /\ UNCHANGED <<resmoke, stepdown, options, hook, teardown_calls, report, test_case,
                   suite_hooks, idx, raised, num_repeats, last_execution, suite_report,
                   test_report, coordinator, queue, unfinished_tasks, fixture, jpc, cur, last,
                   run_count, faults>>

\* `for thread in threads: thread.join()`
JoinThread ==
    /\ epc = "join_threads"
    /\ jpc[idx] \in {"returned", "escaped"}
    /\ IF idx + 1 \in Jobs
       THEN idx' = idx + 1 /\ epc' = epc
       ELSE idx' = 1 /\ epc' = "record_end"
    /\ UNCHANGED <<resmoke, stepdown, options, hook, teardown_calls, report, test_case,
                   suite_hooks, raised, num_repeats, last_execution, suite_report, test_report,
                   coordinator, queue, unfinished_tasks, fixture, jpc, cur, last, run_count,
                   faults>>

\* record_execution_end (combine ends every job's report in place), the interrupted
\* check, the summary, `num_repeats -= 1`
EndExecution ==
    /\ epc = "record_end"
    /\ test_report' = [j \in AllJobs |-> IF j \in Jobs
                                        THEN end_report(test_report[j], combining_time)
                                        ELSE test_report[j]]
    /\ LET sr == record_execution_end(suite_report, test_report)
       IN IF coordinator.interrupted
          THEN IF last_execution
               THEN /\ epc' = "finished"
                    /\ raised' = "UserInterrupt"
                    /\ suite_report' = run_result(sr, "UserInterrupt")
                    /\ UNCHANGED <<idx, num_repeats>>
               ELSE /\ epc' = "teardown_fixtures"
                    /\ raised' = "UserInterrupt"
                    /\ suite_report' = sr
                    /\ idx' = 1
                    /\ UNCHANGED num_repeats
          ELSE /\ epc' = "loop"
               /\ num_repeats' = num_repeats - 1
               /\ suite_report' = sr
               /\ UNCHANGED <<idx, raised>>
    /\ UNCHANGED <<resmoke, stepdown, options, hook, teardown_calls, report, test_case,
                   suite_hooks, last_execution, coordinator, queue, unfinished_tasks, fixture,
                   jpc, cur, last, run_count, faults>>

\* _teardown_fixtures, from _run's finally clause when the last execution was not reached
TeardownFixtures ==
    /\ epc = "teardown_fixtures"
    /\ teardown_calls' = [teardown_calls EXCEPT ![idx] = @ + 1]
    /\ \E ok \in BOOLEAN :
          IF ok
          THEN /\ fixture' = [fixture EXCEPT ![idx] = "torn_down"]
               /\ IF idx + 1 \in Jobs
                  THEN idx' = idx + 1 /\ epc' = epc /\ UNCHANGED <<raised, suite_report>>
                  ELSE idx' = idx /\ Finish(raised)
          ELSE /\ Finish("FixtureError")
               /\ UNCHANGED <<fixture, idx>>
    /\ UNCHANGED <<resmoke, stepdown, options, hook, report, test_case, suite_hooks,
                   num_repeats, last_execution, test_report, coordinator, queue,
                   unfinished_tasks, jpc, cur, last, run_count, faults>>

(***************************************************************************)
(* A job thread (job.py).  Steps that touch only the job's own report,     *)
(* hooks and fixture are one action; reads and writes of the coordinator   *)
(* and of the queue are separate actions, so that they interleave.         *)
(***************************************************************************)
\* Job.__call__: both except clauses (StopExecution, and the bare except) catch
call_catches_stop_only(exc) == exc = "StopExecution"

call_catches(exc) == TRUE

\* where a job goes when exc leaves _run
after_raise(exc) == IF call_catches(exc) THEN "interrupt" ELSE "finally_raise"

\* `while not coordinator.interrupted`
loop_continues_always(c) == TRUE

loop_continues(c) == ~c.interrupted

\* JobCoordinator.set_interrupted
coordinator_set_interrupted(c) == [c EXCEPT !.interrupted = TRUE]

\* JobCoordinator.set_teardown_error
coordinator_set_teardown_error(c) == [c EXCEPT !.teardown_error = TRUE]

\* queue.task_done()
task_done(n) == n - 1

SuiteHookResults == {"none", "StopExecution", "Other"}

\* `for hook in self.hooks: hook.before_suite(...)` (or after_suite): the number of hooks
\* whose method was called when hook number `at` raised (0: none raised)
suite_hooks_called(n, at) == IF at = 0 THEN n ELSE at

\* the history of a job's last executed test is kept until the job's next step
Forget(j) == last' = [last EXCEPT ![j] = NoLast]

\* _run: `for hook in self.hooks: hook.before_suite(test_report)`
JobBeforeSuite(j) ==
    /\ jpc[j] = "before_suite"
    /\ \E exc \in SuiteHookResults, at \in 0..options.num_hooks :
          /\ (exc = "none") <=> (at = 0)
          /\ faults >= MaxFaults => exc = "none"
          /\ faults' = IF exc = "none" THEN faults ELSE faults + 1
          /\ suite_hooks' = [suite_hooks EXCEPT
                                ![j].before = suite_hooks_called(options.num_hooks, at)]
          /\ jpc' = [jpc EXCEPT ![j] = IF exc = "none" THEN "check" ELSE after_raise(exc)]
    /\ UNCHANGED <<resmoke, stepdown, options, hook, teardown_calls, report, test_case, epc,
                   idx, raised, num_repeats, last_execution, suite_report, test_report,
                   coordinator, queue, unfinished_tasks, fixture, cur, last, run_count>>

\* _run: the loop condition
JobCheck(j) ==
    /\ jpc[j] = "check"
    /\ jpc' = [jpc EXCEPT ![j] = IF loop_continues(coordinator) THEN "get" ELSE "after_suite"]
    /\ suite_hooks' = [suite_hooks EXCEPT ![j].loop_ended = ~loop_continues(coordinator)]
    /\ Forget(j)
    /\ UNCHANGED <<resmoke, stepdown, options, hook, teardown_calls, report, test_case, epc,
                   idx, raised, num_repeats, last_execution, suite_report, test_report,
                   coordinator, queue, unfinished_tasks, fixture, cur, run_count, faults>>

\* _run: queue.get_nowait(); on the sentinel, break and task_done in the finally clause
JobGet(j) ==
    /\ jpc[j] = "get"
    /\ suite_hooks' = [suite_hooks EXCEPT
                          ![j].loop_ended = queue # <<>> /\ Head(queue) = SENTINEL]
    /\ IF queue = <<>>
       THEN /\ jpc' = [jpc EXCEPT ![j] = after_raise("Empty")]
            /\ UNCHANGED <<queue, cur, unfinished_tasks>>
       ELSE /\ queue' = Tail(queue)
            /\ cur' = [cur EXCEPT ![j] = Head(queue)]
            /\ IF Head(queue) = SENTINEL
               THEN /\ unfinished_tasks' = task_done(unfinished_tasks)
                    /\ jpc' = [jpc EXCEPT ![j] = "after_suite"]
               ELSE /\ unfinished_tasks' = unfinished_tasks
                    /\ jpc' = [jpc EXCEPT ![j] = "execute"]
    /\ UNCHANGED <<resmoke, stepdown, options, hook, teardown_calls, report, test_case, epc,
                   idx, raised, num_repeats, last_execution, suite_report, test_report,
                   coordinator, fixture, last, run_count, faults>>

\* _run: self._execute_test(test, test_report), then task_done in the finally clause
JobExecute(j) ==
    /\ jpc[j] = "execute"
    /\ \E inp \in TestInputs(options.num_hooks, options.fail_fast, MaxFaults - faults) :
          LET s == execute_test(test_report[j], cur[j], options.num_hooks, inp,
                                options.fail_fast, options.report_failure_status)
              ran == \E p \in 1..Len(s.calls) : s.calls[p][1] = "test"
          IN /\ test_report' = [test_report EXCEPT ![j] = s.info]
             /\ last' = [last EXCEPT ![j] = [t |-> cur[j], inp |-> inp, exc |-> s.exc,
                                             calls |-> s.calls]]
             /\ run_count' = [run_count EXCEPT ![cur[j]] = IF ran THEN @ + 1 ELSE @]
             /\ fixture' = [fixture EXCEPT ![j] = IF ran /\ ~inp.running THEN "crashed" ELSE @]
             /\ jpc' = [jpc EXCEPT ![j] = IF s.exc = "none" THEN "check" ELSE after_raise(s.exc)]
             /\ faults' = faults + FaultCount(inp)
    /\ unfinished_tasks' = task_done(unfinished_tasks)
    /\ UNCHANGED <<resmoke, stepdown, options, hook, teardown_calls, report, test_case,
                   suite_hooks, epc, idx, raised, num_repeats, last_execution, suite_report,
                   coordinator, queue, cur>>

\* _run: `for hook in self.hooks: hook.after_suite(test_report)`
JobAfterSuite(j) ==
    /\ jpc[j] = "after_suite"
    /\ \E exc \in SuiteHookResults, at \in 0..options.num_hooks :
          /\ (exc = "none") <=> (at = 0)
          /\ faults >= MaxFaults => exc = "none"
          /\ faults' = IF exc = "none" THEN faults ELSE faults + 1
          /\ suite_hooks' = [suite_hooks EXCEPT
                                ![j].after = suite_hooks_called(options.num_hooks, at)]
          /\ jpc' = [jpc EXCEPT ![j] = IF exc = "none" THEN "finally" ELSE after_raise(exc)]
    /\ UNCHANGED <<resmoke, stepdown, options, hook, teardown_calls, report, test_case, epc,
                   idx, raised, num_repeats, last_execution, suite_report, test_report,
                   coordinator, queue, unfinished_tasks, fixture, cur, last, run_count>>

\* _handle_job_interruption: coordinator.set_interrupted(), then the drain starts
JobInterrupt(j) ==
    /\ jpc[j] = "interrupt"
    /\ coordinator' = coordinator_set_interrupted(coordinator)
    /\ jpc' = [jpc EXCEPT ![j] = "drain_check"]
    /\ Forget(j)
    /\ UNCHANGED <<resmoke, stepdown, options, hook, teardown_calls, report, test_case,
                   suite_hooks, epc, idx, raised, num_repeats, last_execution, suite_report,
                   test_report, queue, unfinished_tasks, fixture, cur, run_count, faults>>

\* _drain_queue: `while not queue.empty()`
drain_continues_never(q) == FALSE

drain_continues(q) == q # <<>>

\* _drain_queue: `except _queue.Empty: pass`
drain_catches_nothing(exc) == FALSE

drain_catches(exc) == exc = "Empty"

JobDrainCheck(j) ==
    /\ jpc[j] = "drain_check"
    /\ jpc' = [jpc EXCEPT ![j] = IF drain_continues(queue) THEN "drain_get" ELSE "finally_caught"]
    /\ UNCHANGED <<resmoke, stepdown, options, hook, teardown_calls, report, test_case,
                   suite_hooks, epc, idx, raised, num_repeats, last_execution, suite_report,
                   test_report, coordinator, queue, unfinished_tasks, fixture, cur, last,
                   run_count, faults>>

\* _drain_queue: queue.get_nowait() and queue.task_done(); Empty ends the drain silently
JobDrainGet(j) ==
    /\ jpc[j] = "drain_get"
    /\ IF queue = <<>>
       THEN /\ jpc' = [jpc EXCEPT ![j] = IF drain_catches("Empty") THEN "finally_caught"
                                            ELSE "finally_raise"]
            /\ UNCHANGED <<queue, unfinished_tasks>>
       ELSE /\ queue' = Tail(queue)
            /\ unfinished_tasks' = task_done(unfinished_tasks)
            /\ jpc' = [jpc EXCEPT ![j] = "drain_check"]
    /\ UNCHANGED <<resmoke, stepdown, options, hook, teardown_calls, report, test_case,
                   suite_hooks, epc, idx, raised, num_repeats, last_execution, suite_report,
                   test_report, coordinator, fixture, cur, last, run_count, faults>>

TeardownResults == {"ok", "False", "FixtureError", "Other"}

\* Job.__call__: `if teardown`, where the executor passed teardown=last_execution
job_tears_down_always(teardown) == TRUE

job_tears_down(teardown) == teardown

\* Job.__call__'s finally clause: _teardown_fixture when teardown was requested.  The
\* clause is entered when _run has returned ("finally"), when an except clause has
\* handled its exception ("finally_caught") or with the exception still propagating
\* ("finally_raise")
JobFinally(j) ==
    /\ jpc[j] \in {"finally", "finally_caught", "finally_raise"}
    /\ IF job_tears_down(last_execution)
       THEN \E r \in TeardownResults :
               /\ fixture' = [fixture EXCEPT ![j] = "torn_down"]
               /\ teardown_calls' = [teardown_calls EXCEPT ![j] = @ + 1]
               /\ coordinator' = IF r \in {"FixtureError", "Other"}
                                 THEN coordinator_set_teardown_error(coordinator)
                                 ELSE coordinator
       ELSE UNCHANGED <<fixture, coordinator, teardown_calls>>
    /\ jpc' = [jpc EXCEPT ![j] = IF jpc[j] = "finally_raise" THEN "escaped" ELSE "returned"]
    /\ Forget(j)
    /\ UNCHANGED <<resmoke, stepdown, options, hook, report, test_case, suite_hooks, epc, idx,
                   raised, num_repeats, last_execution, suite_report, test_report, queue,
                   unfinished_tasks, cur, run_count, faults>>

\* the steps of a job thread other than the execution of a test
JobControl(j) ==
    \/ JobBeforeSuite(j)
    \/ JobCheck(j)
    \/ JobGet(j)
    \/ JobAfterSuite(j)
    \/ JobInterrupt(j)
    \/ JobDrainCheck(j)
    \/ JobDrainGet(j)
    \/ JobFinally(j)

Job(j) == JobControl(j) \/ JobExecute(j)

Main ==
    \/ SetupFixture
    \/ AwaitReady
    \/ LoopHead
    \/ StartJob
    \/ WaitForQueue
    \/ JoinThread
    \/ EndExecution
    \/ TeardownFixtures

Next == Main \/ \E j \in AllJobs : Job(j)

Spec == Init /\ [][Next]_vars

\* every thread is scheduled again and again (the operating system's scheduler), and a
\* running test terminates: no job stays in _execute_test forever.  JobExecute(j) is
\* enabled exactly when jpc[j] = "execute", so the last conjunct is WF_vars(JobExecute(j))
FairSpec ==
    /\ Spec
    /\ WF_vars(Main)
    /\ \A j \in AllJobs : WF_vars(JobControl(j))
    /\ \A j \in AllJobs : []<>(jpc[j] # "execute")

(***************************************************************************)
(* The executor under a signal to the main thread: Python raises           *)
(* KeyboardInterrupt in the main thread wherever it is inside              *)
(* _run_execution, and resmoke logs the suite summary once run() returned. *)
(***************************************************************************)
\* _run_execution: `except (KeyboardInterrupt, SystemExit): raise errors.UserInterrupt()`;
\* record_execution_end is skipped, _run's finally clause tears the fixtures down unless
\* this is the last execution, and run() marks the report interrupted
MainInterrupt ==
    /\ epc \in {"start_jobs", "wait_queue", "join_threads"}
    /\ faults < MaxFaults
    /\ faults' = faults + 1
    /\ IF last_execution
       THEN Finish("UserInterrupt") /\ idx' = idx
       ELSE /\ epc' = "teardown_fixtures"
            /\ raised' = "UserInterrupt"
            /\ idx' = 1
            /\ UNCHANGED suite_report
    /\ UNCHANGED <<resmoke, stepdown, options, hook, teardown_calls, report, test_case,
                   suite_hooks, num_repeats, last_execution, test_report, coordinator, queue,
                   unfinished_tasks, fixture, jpc, cur, last, run_count>>

\* the jobs whose TestReport the execution in progress holds
current_jobs(sr) ==
    IF sr.current_execution = NO_EXECUTION THEN {}
    ELSE {sr.current_execution[1][i] : i \in 1..Len(sr.current_execution[1])}

\* Resmoke._log_suite_summary -> SuiteReport.get_summary -> _get_all_executions: the
\* reports of an execution in progress are combined, and combine ends the outcomes of
\* each report in place (get_info clones the report but shares its _TestInfo objects)
GetSummary ==
    /\ epc = "finished"
    /\ epc' = "summarised"
    /\ test_report' = [j \in AllJobs |-> IF j \in current_jobs(suite_report)
                                        THEN end_report(test_report[j], combining_time)
                                        ELSE test_report[j]]
    /\ UNCHANGED <<resmoke, stepdown, options, hook, teardown_calls, report, test_case,
                   suite_hooks, idx, raised, num_repeats, last_execution, suite_report,
                   coordinator, queue, unfinished_tasks, fixture, jpc, cur, last, run_count,
                   faults>>

SignalNext == Next \/ MainInterrupt \/ GetSummary

SignalSpec == Init /\ [][SignalNext]_vars

(***************************************************************************)
(* The resmoke process (resmoke.py): the suites are run one after the      *)
(* other, each by a TestSuiteExecutor of its own, whose run() leaves the   *)
(* suite's result in its SuiteReport.                                      *)
(***************************************************************************)
MaxSuites == 3

NOOP_FIXTURE_CLASS == "NoOpFixture"

FixtureClasses == {"ReplicaSetFixture"}

\* a suite: its fail_fast option, whether it selects any test, and the "fixture" entry of
\* its executor configuration (NONE when the configuration has none)
SuiteConfigs ==
    [fail_fast : BOOLEAN, has_tests : BOOLEAN,
     fixture : [class : FixtureClasses] \cup {[class |-> NONE]}]

\* the exceptions that may leave TestSuiteExecutor._run
RunExceptions == {"none", "UserInterrupt", "IOError", "FixtureError", "Other"}

\* SuiteReport.__init__
NewSuiteReport ==
    [executions |-> <<>>, current_execution |-> NO_EXECUTION, interrupted |-> FALSE,
     return_code |-> 0]

\* TestSuiteExecutor.__init__: the fixture configuration is kept in _fixture_config (the
\* model's private_fixture_config); fixture_config is the attribute _override_config sets
executor_init(suite) ==
    [private_fixture_config |-> suite.fixture, fixture_config |-> [class |-> NONE]]

\* TestSuiteExecutor._override_config
override_config(executor, shell_conn_string) ==
    IF shell_conn_string
    THEN [executor EXCEPT !.fixture_config = [class |-> NOOP_FIXTURE_CLASS]]
    ELSE executor

\* TestSuiteExecutor._make_fixture: the class of the fixture it creates
make_fixture(executor) ==
    IF executor.private_fixture_config.class # NONE
    THEN executor.private_fixture_config.class
    ELSE NOOP_FIXTURE_CLASS

\* Resmoke._handle_suite_result: `interrupted or fail_fast and return_code != 0`
handle_exits_if_interrupted(sr, fail_fast) == sr.interrupted

handle_exits(sr, fail_fast) == sr.interrupted \/ (fail_fast /\ sr.return_code # 0)

\* max(report.return_code for _, report in suites_and_reports)
RECURSIVE max_return_code(_)
max_return_code(reports) ==
    IF Len(reports) = 1 THEN reports[1].return_code
    ELSE LET m == max_return_code(Tail(reports))
         IN IF reports[1].return_code > m THEN reports[1].return_code ELSE m

\* Resmoke.run_tests before its loop: one SuiteReport per suite
ResmokeInit ==
    /\ ExecutorInit
    /\ hook = HookIdle
    /\ options = [fail_fast |-> FALSE, num_jobs |-> 1, num_repeats |-> 1, num_hooks |-> 0,
                  report_failure_status |-> EVG_STATUS_FAIL]
    /\ stepdown = StepdownIdle
    /\ report = ReportIdle
    /\ test_case = TestCaseIdle
    /\ \E n \in 1..MaxSuites, shell_conn_string \in BOOLEAN :
          \E suites \in [1..n -> SuiteConfigs] :
             resmoke = [shell_conn_string |-> shell_conn_string,
                        suites |-> suites,
                        reports |-> [i \in 1..n |-> NewSuiteReport],
                        made |-> [i \in 1..n |-> NONE],
                        ran |-> {},
                        cur |-> 1,
                        pc |-> "run_suite",
                        exit_code |-> NO_CODE]

\* run_suite up to _log_suite_summary: _execute_suite skips a suite without tests, and
\* otherwise constructs the executor (whose jobs get their fixtures) and calls run()
ExecuteSuite ==
    /\ resmoke.pc = "run_suite"
    /\ resmoke.cur <= Len(resmoke.suites)
    /\ LET i == resmoke.cur
           suite == resmoke.suites[i]
           executor == override_config(executor_init(suite), resmoke.shell_conn_string)
       IN IF ~suite.has_tests
          THEN resmoke' = [resmoke EXCEPT !.ran = @ \cup {i}, !.pc = "handle"]
          ELSE \E exc \in RunExceptions :
                  resmoke' = [resmoke EXCEPT !.ran = @ \cup {i}, !.pc = "handle",
                                             !.made[i] = make_fixture(executor),
                                             !.reports[i] = run_result(@, exc)]
    /\ UNCHANGED <<stepdown, options, hook, teardown_calls, report, test_case, suite_hooks, epc,
                   idx, raised, num_repeats, last_execution, suite_report, test_report,
                   coordinator, queue, unfinished_tasks, fixture, jpc, cur, last, run_count,
                   faults>>

\* _handle_suite_result: exit with the suite's return code, or go on to the next suite
HandleSuiteResult ==
    /\ resmoke.pc = "handle"
    /\ LET i == resmoke.cur
       IN IF handle_exits(resmoke.reports[i], resmoke.suites[i].fail_fast)
          THEN resmoke' = [resmoke EXCEPT !.pc = "exited",
                                          !.exit_code = Code(resmoke.reports[i].return_code)]
          ELSE resmoke' = [resmoke EXCEPT !.pc = "run_suite", !.cur = i + 1]
    /\ UNCHANGED <<stepdown, options, hook, teardown_calls, report, test_case, suite_hooks, epc,
                   idx, raised, num_repeats, last_execution, suite_report, test_report,
                   coordinator, queue, unfinished_tasks, fixture, jpc, cur, last, run_count,
                   faults>>

\* run_tests after its loop: exit with the largest return code
ExitMax ==
    /\ resmoke.pc = "run_suite"
    /\ resmoke.cur > Len(resmoke.suites)
    /\ resmoke' = [resmoke EXCEPT !.pc = "exited",
                                  !.exit_code = Code(max_return_code(resmoke.reports))]
    /\ UNCHANGED <<stepdown, options, hook, teardown_calls, report, test_case, suite_hooks, epc,
                   idx, raised, num_repeats, last_execution, suite_report, test_report,
                   coordinator, queue, unfinished_tasks, fixture, jpc, cur, last, run_count,
                   faults>>

ResmokeNext == ExecuteSuite \/ HandleSuiteResult \/ ExitMax

ResmokeSpec == ResmokeInit /\ [][ResmokeNext]_vars

(***************************************************************************)
(* The ContinuousStepdown hook (hooks/stepdown.py): the job thread calls   *)
(* before_test and after_test around every test, and the hook's            *)
(* _StepdownThread steps the primaries down in the background.  Every read *)
(* or write of an event is a step of its own.                              *)
(***************************************************************************)
MaxRsFixtures == 2

\* _StepdownThread.__init__ and start(): both events set, the thread at the top of run();
\* the job is about to run `tests` tests with the hook
StepdownInit ==
    /\ ExecutorInit
    /\ hook = HookIdle
    /\ options = [fail_fast |-> FALSE, num_jobs |-> 1, num_repeats |-> 1, num_hooks |-> 0,
                  report_failure_status |-> EVG_STATUS_FAIL]
    /\ resmoke = ResmokeIdle
    /\ report = ReportIdle
    /\ test_case = TestCaseIdle
    /\ \E n \in 0..MaxRsFixtures, tests \in 1..NumTests :
          stepdown = [thread |-> "run", job |-> "before_test",
                      is_stopped_evt |-> FALSE, is_resumed_evt |-> TRUE, is_idle_evt |-> TRUE,
                      rs_fixtures |-> n, k |-> 1, tests |-> tests,
                      stepped_down_paused |-> FALSE]

\* run: `if not self._rs_fixtures: return`
ThreadRun ==
    /\ stepdown.thread = "run"
    /\ stepdown' = [stepdown EXCEPT !.thread = IF stepdown.rs_fixtures = 0 THEN "done"
                                               ELSE "pause_if_needed"]
    /\ UNCHANGED <<resmoke, options, hook, teardown_calls, report, test_case, suite_hooks, epc,
                   idx, raised, num_repeats, last_execution, suite_report, test_report,
                   coordinator, queue, unfinished_tasks, fixture, jpc, cur, last, run_count,
                   faults>>

\* _pause_if_needed: self._is_resumed_evt.wait()
PauseIfNeeded ==
    /\ stepdown.thread = "pause_if_needed"
    /\ stepdown.is_resumed_evt
    /\ stepdown' = [stepdown EXCEPT !.thread = "is_stopped"]
    /\ UNCHANGED <<resmoke, options, hook, teardown_calls, report, test_case, suite_hooks, epc,
                   idx, raised, num_repeats, last_execution, suite_report, test_report,
                   coordinator, queue, unfinished_tasks, fixture, jpc, cur, last, run_count,
                   faults>>

\* run: `if self._is_stopped(): break`
IsStopped ==
    /\ stepdown.thread = "is_stopped"
    /\ stepdown' = [stepdown EXCEPT !.thread = IF stepdown.is_stopped_evt THEN "done"
                                               ELSE "interval"]
    /\ UNCHANGED <<resmoke, options, hook, teardown_calls, report, test_case, suite_hooks, epc,
                   idx, raised, num_repeats, last_execution, suite_report, test_report,
                   coordinator, queue, unfinished_tasks, fixture, jpc, cur, last, run_count,
                   faults>>

\* run: `if now - self._last_exec > self._stepdown_interval_secs`
CheckInterval ==
    /\ stepdown.thread = "interval"
    /\ \E due \in BOOLEAN :
          stepdown' = [stepdown EXCEPT !.thread = IF due THEN "step_down_all" ELSE "wait"]
    /\ UNCHANGED <<resmoke, options, hook, teardown_calls, report, test_case, suite_hooks, epc,
                   idx, raised, num_repeats, last_execution, suite_report, test_report,
                   coordinator, queue, unfinished_tasks, fixture, jpc, cur, last, run_count,
                   faults>>

\* _step_down_all: self._is_idle_evt.clear()
StepDownAll ==
    /\ stepdown.thread = "step_down_all"
    /\ stepdown' = [stepdown EXCEPT !.thread = "step_down", !.is_idle_evt = FALSE, !.k = 1]
    /\ UNCHANGED <<resmoke, options, hook, teardown_calls, report, test_case, suite_hooks, epc,
                   idx, raised, num_repeats, last_execution, suite_report, test_report,
                   coordinator, queue, unfinished_tasks, fixture, jpc, cur, last, run_count,
                   faults>>

\* _step_down_all: self._step_down(rs_fixture) for the next replica set, which returns or
\* re-raises a PyMongoError that ends the thread (run catches nothing); the history
\* field records a step-down made while the job is between after_test and the next
\* before_test
StepDown ==
    /\ stepdown.thread = "step_down"
    /\ \E raises \in BOOLEAN :
          stepdown' =
             IF raises
             THEN [stepdown EXCEPT !.thread = "done"]
             ELSE [stepdown EXCEPT
                      !.stepped_down_paused =
                          @ \/ (stepdown.job = "paused" /\ stepdown.tests > 0),
                      !.k = IF stepdown.k < stepdown.rs_fixtures THEN @ + 1 ELSE 1,
                      !.thread = IF stepdown.k < stepdown.rs_fixtures THEN "step_down"
                                 ELSE "set_idle"]
    /\ UNCHANGED <<resmoke, options, hook, teardown_calls, report, test_case, suite_hooks, epc,
                   idx, raised, num_repeats, last_execution, suite_report, test_report,
                   coordinator, queue, unfinished_tasks, fixture, jpc, cur, last, run_count,
                   faults>>

\* _step_down_all: self._is_idle_evt.set()
SetIdle ==
    /\ stepdown.thread = "set_idle"
    /\ stepdown' = [stepdown EXCEPT !.thread = "await_primaries", !.is_idle_evt = TRUE]
    /\ UNCHANGED <<resmoke, options, hook, teardown_calls, report, test_case, suite_hooks, epc,
                   idx, raised, num_repeats, last_execution, suite_report, test_report,
                   coordinator, queue, unfinished_tasks, fixture, jpc, cur, last, run_count,
                   faults>>

\* run: self._await_primaries() and the new _last_exec
ThreadAwaitPrimaries ==
    /\ stepdown.thread = "await_primaries"
    /\ stepdown' = [stepdown EXCEPT !.thread = "wait"]
    /\ UNCHANGED <<resmoke, options, hook, teardown_calls, report, test_case, suite_hooks, epc,
                   idx, raised, num_repeats, last_execution, suite_report, test_report,
                   coordinator, queue, unfinished_tasks, fixture, jpc, cur, last, run_count,
                   faults>>

\* run: self._wait(wait_secs) returns on the timeout or on stop
ThreadWait ==
    /\ stepdown.thread = "wait"
    /\ stepdown' = [stepdown EXCEPT !.thread = "pause_if_needed"]
    /\ UNCHANGED <<resmoke, options, hook, teardown_calls, report, test_case, suite_hooks, epc,
                   idx, raised, num_repeats, last_execution, suite_report, test_report,
                   coordinator, queue, unfinished_tasks, fixture, jpc, cur, last, run_count,
                   faults>>

\* ContinuousStepdown._check_thread: the thread is alive
check_thread(sd) == sd.thread # "done"

\* before_test: _check_thread(), then resume() sets the resumed event; the test starts
BeforeTest ==
    /\ stepdown.job \in {"before_test", "paused"}
    /\ stepdown.tests > 0
    /\ stepdown' = IF check_thread(stepdown)
                   THEN [stepdown EXCEPT !.job = "test", !.is_resumed_evt = TRUE]
                   ELSE [stepdown EXCEPT !.job = "ServerFailure"]
    /\ UNCHANGED <<resmoke, options, hook, teardown_calls, report, test_case, suite_hooks, epc,
                   idx, raised, num_repeats, last_execution, suite_report, test_report,
                   coordinator, queue, unfinished_tasks, fixture, jpc, cur, last, run_count,
                   faults>>

\* the test runs, then after_test is called
RunTest ==
    /\ stepdown.job = "test"
    /\ stepdown' = [stepdown EXCEPT !.job = "after_test", !.tests = @ - 1]
    /\ UNCHANGED <<resmoke, options, hook, teardown_calls, report, test_case, suite_hooks, epc,
                   idx, raised, num_repeats, last_execution, suite_report, test_report,
                   coordinator, queue, unfinished_tasks, fixture, jpc, cur, last, run_count,
                   faults>>

\* after_test: _check_thread(), then pause() clears the resumed event
AfterTest ==
    /\ stepdown.job = "after_test"
    /\ stepdown' = IF check_thread(stepdown)
                   THEN [stepdown EXCEPT !.job = "pause_wait_idle", !.is_resumed_evt = FALSE]
                   ELSE [stepdown EXCEPT !.job = "ServerFailure"]
    /\ UNCHANGED <<resmoke, options, hook, teardown_calls, report, test_case, suite_hooks, epc,
                   idx, raised, num_repeats, last_execution, suite_report, test_report,
                   coordinator, queue, unfinished_tasks, fixture, jpc, cur, last, run_count,
                   faults>>

\* pause: self._is_idle_evt.wait() returns once the idle event is set
pause_waits(sd) == sd.is_idle_evt

\* pause: wait until no step-down is being executed
PauseWaitIdle ==
    /\ stepdown.job = "pause_wait_idle"
    /\ pause_waits(stepdown)
    /\ stepdown' = [stepdown EXCEPT !.job = "pause_await_primaries"]
    /\ UNCHANGED <<resmoke, options, hook, teardown_calls, report, test_case, suite_hooks, epc,
                   idx, raised, num_repeats, last_execution, suite_report, test_report,
                   coordinator, queue, unfinished_tasks, fixture, jpc, cur, last, run_count,
                   faults>>

\* pause: self._await_primaries(); after_test returns
PauseAwaitPrimaries ==
    /\ stepdown.job = "pause_await_primaries"
    /\ stepdown' = [stepdown EXCEPT !.job = "paused"]
    /\ UNCHANGED <<resmoke, options, hook, teardown_calls, report, test_case, suite_hooks, epc,
                   idx, raised, num_repeats, last_execution, suite_report, test_report,
                   coordinator, queue, unfinished_tasks, fixture, jpc, cur, last, run_count,
                   faults>>

\* after_suite: stop() sets the stopped event and resumes the thread
AfterSuite ==
    /\ stepdown.job = "paused"
    /\ stepdown.tests = 0
    /\ stepdown' = [stepdown EXCEPT !.job = "join", !.is_stopped_evt = TRUE,
                                    !.is_resumed_evt = TRUE]
    /\ UNCHANGED <<resmoke, options, hook, teardown_calls, report, test_case, suite_hooks, epc,
                   idx, raised, num_repeats, last_execution, suite_report, test_report,
                   coordinator, queue, unfinished_tasks, fixture, jpc, cur, last, run_count,
                   faults>>

\* stop: self.join()
StopJoin ==
    /\ stepdown.job = "join"
    /\ stepdown.thread = "done"
    /\ stepdown' = [stepdown EXCEPT !.job = "done"]
    /\ UNCHANGED <<resmoke, options, hook, teardown_calls, report, test_case, suite_hooks, epc,
                   idx, raised, num_repeats, last_execution, suite_report, test_report,
                   coordinator, queue, unfinished_tasks, fixture, jpc, cur, last, run_count,
                   faults>>

StepdownThread ==
    \/ ThreadRun
    \/ PauseIfNeeded
    \/ IsStopped
    \/ CheckInterval
    \/ StepDownAll
    \/ StepDown
    \/ SetIdle
    \/ ThreadAwaitPrimaries
    \/ ThreadWait

StepdownJob ==
    \/ BeforeTest
    \/ RunTest
    \/ AfterTest
    \/ PauseWaitIdle
    \/ PauseAwaitPrimaries
    \/ AfterSuite
    \/ StopJoin

StepdownNext == StepdownThread \/ StepdownJob

StepdownSpec == StepdownInit /\ [][StepdownNext]_vars

\* both threads keep running: a thread that can take a step eventually takes it
StepdownFairSpec == StepdownSpec /\ WF_vars(StepdownThread) /\ WF_vars(StepdownJob)

(***************************************************************************)
(* A TestReportInfo on its own (report.py): any sequence of calls of its   *)
(* recording methods, up to MaxCalls calls.  `before` is the report as it  *)
(* was when the last call was made, `raised` the exception that call       *)
(* raised ("none" if it returned).                                         *)
(***************************************************************************)
MaxCalls == 4

ReportTestIds == {TestId(1), TestId(2)}

\* the ValueError of get_by_id, raised before the calling method changes anything
lookup_raises(info, test_id) == get_by_id(info, test_id) = 0

\* the exception a call raises, given whether the lookup and the method's assertion fail
call_exception(unknown, assertion_fails) ==
    IF unknown THEN "ValueError" ELSE IF assertion_fails THEN "AssertionError" ELSE "none"

\* a call of method op: the report is left as it was when the call raises
ReportCall(op, test_id, exc, new_info) ==
    /\ report.op # "idle"
    /\ report.calls < MaxCalls
    /\ report' = [info |-> IF exc = "none" THEN new_info ELSE report.info,
                  before |-> report.info, op |-> op, test_id |-> test_id, raised |-> exc,
                  calls |-> report.calls + 1]
    /\ UNCHANGED <<test_case, resmoke, stepdown, options, hook, teardown_calls, suite_hooks,
                   epc, idx, raised, num_repeats, last_execution, suite_report, test_report,
                   coordinator, queue, unfinished_tasks, fixture, jpc, cur, last, run_count,
                   faults>>

\* TestReportInfo.__init__
ReportInit ==
    /\ ExecutorInit
    /\ hook = HookIdle
    /\ options = [fail_fast |-> FALSE, num_jobs |-> 1, num_repeats |-> 1, num_hooks |-> 0,
                  report_failure_status |-> EVG_STATUS_FAIL]
    /\ resmoke = ResmokeIdle
    /\ stepdown = StepdownIdle
    /\ test_case = TestCaseIdle
    /\ report = [info |-> NewReportInfo, before |-> NewReportInfo, op |-> "init",
                 test_id |-> TestId(1), raised |-> "none", calls |-> 0]

RecordTestStart ==
    \E test_id \in ReportTestIds, dynamic \in BOOLEAN :
        ReportCall("record_test_start", test_id, "none",
                   record_test_start(report.info, test_id, dynamic))

RecordTestEnd ==
    \E test_id \in ReportTestIds :
        ReportCall("record_test_end", test_id,
                   call_exception(lookup_raises(report.info, test_id),
                                  record_test_end_raises(report.info, test_id)),
                   record_test_end(report.info, test_id))

RecordTestSuccess ==
    \E test_id \in ReportTestIds :
        ReportCall("record_test_success", test_id,
                   call_exception(lookup_raises(report.info, test_id), FALSE),
                   record_test_success(report.info, test_id, Code(0)))

RecordTestFailure ==
    \E test_id \in ReportTestIds :
        ReportCall("record_test_failure", test_id,
                   call_exception(lookup_raises(report.info, test_id), FALSE),
                   record_test_failure(report.info, test_id, Code(RETURN_CODE_FAIL),
                                       EVG_STATUS_FAIL))

RecordTestError ==
    \E test_id \in ReportTestIds, return_code \in {NO_CODE, Code(RETURN_CODE_SERVER)} :
        ReportCall("record_test_error", test_id,
                   call_exception(lookup_raises(report.info, test_id), FALSE),
                   record_test_error(report.info, test_id, return_code))

UpdateTestFailure ==
    \E test_id \in ReportTestIds :
        ReportCall("update_test_failure", test_id,
                   call_exception(lookup_raises(report.info, test_id),
                                  update_test_raises(report.info, test_id)),
                   update_test_failure(report.info, test_id, Code(RETURN_CODE_FAIL),
                                       EVG_STATUS_FAIL))

UpdateTestError ==
    \E test_id \in ReportTestIds :
        ReportCall("update_test_error", test_id,
                   call_exception(lookup_raises(report.info, test_id),
                                  update_test_raises(report.info, test_id)),
                   update_test_error(report.info, test_id, Code(RETURN_CODE_SERVER)))

\* TestReportInfo.clone: a new report with the same counters and a copy of the list of
\* outcomes, which holds the same _TestInfo objects as the live report's list
clone(info) ==
    [test_infos |-> info.test_infos, num_dynamic |-> info.num_dynamic,
     num_succeeded |-> info.num_succeeded, num_failed |-> info.num_failed,
     num_errored |-> info.num_errored, num_interrupted |-> info.num_interrupted]

\* the live report after combine has ended its clone: end_report wrote to the _TestInfo
\* objects that both lists hold; the live report's own list and counters are untouched
live_after_combine(info) ==
    [info EXCEPT !.test_infos = end_report(clone(info), combining_time).test_infos]

\* SuiteReport._get_all_executions while the execution is running: get_info() of the
\* job's report, and combine of the snapshot
GetAllExecutions ==
    ReportCall("get_all_executions", report.test_id, "none", live_after_combine(report.info))

ReportNext ==
    \/ GetAllExecutions
    \/ RecordTestStart
    \/ RecordTestEnd
    \/ RecordTestSuccess
    \/ RecordTestFailure
    \/ RecordTestError
    \/ UpdateTestFailure
    \/ UpdateTestError

ReportSpec == ReportInit /\ [][ReportNext]_vars

(***************************************************************************)
(* combine, as_dict and from_dict of TestReportInfo (report.py) as pure    *)
(* functions: three reports a, b and c are drawn, combined both ways, and  *)
(* the combined report is written to a dict and read back.                 *)
(***************************************************************************)
MaxOutcomes == 2

\* the --reportFailureStatus choices (parser.py)
FailureStatuses == {EVG_STATUS_FAIL, "silentfail"}

\* what one outcome can look like after calls of the recording methods: started only,
\* stopped without a status, given a status and not stopped, or given a status and
\* stopped
OutcomesOf(test_id, dynamic) ==
    LET started == record_test_start(NewReportInfo, test_id, dynamic)
        reports ==
            {started,
             record_test_end(started, test_id),
             record_test_success(started, test_id, Code(0)),
             record_test_end(record_test_success(started, test_id, Code(0)), test_id)}
            \cup {record_test_end(record_test_failure(started, test_id,
                                                      Code(RETURN_CODE_FAIL), fs), test_id) :
                     fs \in FailureStatuses}
            \cup {record_test_end(record_test_error(started, test_id, rc), test_id) :
                     rc \in {NO_CODE, Code(RETURN_CODE_SERVER)}}
    IN {r.test_infos[1] : r \in reports}

Outcomes == OutcomesOf(TestId(1), FALSE) \cup OutcomesOf(DynamicId(1, 1), TRUE)

\* a report that holds these outcomes, with the counters the recording methods give
ReportInfoOf(test_infos) ==
    recompute_nums([NewReportInfo EXCEPT
                       !.test_infos = test_infos,
                       !.num_dynamic = Len(SelectSeq(test_infos, LAMBDA ti : ti.dynamic))])

ReportInfos(n) == {ReportInfoOf(test_infos) : test_infos \in UNION {[1..k -> Outcomes] : k \in 0..n}}

\* TestReportInfo.as_dict: the "status" written is the evergreen status
as_dict(info) ==
    [results |-> [i \in 1..Len(info.test_infos) |->
                     LET test_info == info.test_infos[i]
                     IN [test_file |-> test_info.test_id,
                         status |-> test_info.evergreen_status,
                         exit_code |-> test_info.return_code,
                         start |-> test_info.start_time,
                         end |-> test_info.end_time,
                         elapsed |-> <<test_info.end_time, test_info.start_time>>]],
     failures |-> info.num_failed + info.num_errored + info.num_interrupted]

\* `":" in result["test_file"]`: the ids <<t, h>> with h > 0 stand for "<basename>:<hook>"
is_dynamic(test_file) == test_file[2] # 0

\* TestReportInfo.from_dict
from_dict(report_dict) ==
    LET test_infos ==
            [i \in 1..Len(report_dict.results) |->
                LET result == report_dict.results[i]
                IN [test_id |-> result.test_file, dynamic |-> is_dynamic(result.test_file),
                    start_time |-> result.start, end_time |-> result.end,
                    status |-> result.status, evergreen_status |-> result.status,
                    return_code |-> result.exit_code]]
    IN recompute_nums([NewReportInfo EXCEPT
                          !.test_infos = test_infos,
                          !.num_dynamic = Len(SelectSeq(test_infos, LAMBDA ti : ti.dynamic))])

CombineInit ==
    /\ ExecutorInit
    /\ hook = HookIdle
    /\ options = [fail_fast |-> FALSE, num_jobs |-> 1, num_repeats |-> 1, num_hooks |-> 0,
                  report_failure_status |-> EVG_STATUS_FAIL]
    /\ resmoke = ResmokeIdle
    /\ stepdown = StepdownIdle
    /\ test_case = TestCaseIdle
    /\ \E a \in ReportInfos(MaxOutcomes), b \in ReportInfos(1), c \in ReportInfos(1) :
          report = [op |-> "drawn", a |-> a, b |-> b, c |-> c]

\* combine([combine([a, b]), c]) and combine([a, b, c])
Combine ==
    /\ report.op = "drawn"
    /\ report' = [op |-> "combine", a |-> report.a, b |-> report.b, c |-> report.c,
                  nested |-> combine(<<combine(<<report.a, report.b>>), report.c>>),
                  flat |-> combine(<<report.a, report.b, report.c>>)]
    /\ UNCHANGED <<test_case, resmoke, stepdown, options, hook, teardown_calls, suite_hooks,
                   epc, idx, raised, num_repeats, last_execution, suite_report, test_report,
                   coordinator, queue, unfinished_tasks, fixture, jpc, cur, last, run_count,
                   faults>>

\* as_dict of the combined report
AsDict ==
    /\ report.op = "combine"
    /\ report' = [op |-> "as_dict", info |-> report.flat, dict |-> as_dict(report.flat)]
    /\ UNCHANGED <<test_case, resmoke, stepdown, options, hook, teardown_calls, suite_hooks,
                   epc, idx, raised, num_repeats, last_execution, suite_report, test_report,
                   coordinator, queue, unfinished_tasks, fixture, jpc, cur, last, run_count,
                   faults>>

\* from_dict of the dict
FromDict ==
    /\ report.op = "as_dict"
    /\ report' = [op |-> "from_dict", info |-> report.info, copy |-> from_dict(report.dict)]
    /\ UNCHANGED <<test_case, resmoke, stepdown, options, hook, teardown_calls, suite_hooks,
                   epc, idx, raised, num_repeats, last_execution, suite_report, test_report,
                   coordinator, queue, unfinished_tasks, fixture, jpc, cur, last, run_count,
                   faults>>

CombineNext == Combine \/ AsDict \/ FromDict

CombineSpec == CombineInit /\ [][CombineNext]_vars

(***************************************************************************)
(* TestCase.run (testcases/interface.py), statement by statement, on a     *)
(* report that may already hold outcomes.  test_case.pending is the        *)
(* exception that is propagating when the finally clause is entered, and   *)
(* test_case.raised the one that leaves run ("none": run returns).         *)
(* test_case.started and test_case.stops tell whether this run recorded    *)
(* the start and how many times it recorded the stop.                      *)
(***************************************************************************)
\* what run_test does: one of TestResults, or a KeyboardInterrupt
RunTestResults == TestResults \cup {"KeyboardInterrupt"}

\* TestCase.__init__, or a test that ran before and was not reset
TestCaseInit ==
    /\ ExecutorInit
    /\ hook = HookIdle
    /\ options = [fail_fast |-> FALSE, num_jobs |-> 1, num_repeats |-> 1, num_hooks |-> 0,
                  report_failure_status |-> EVG_STATUS_FAIL]
    /\ resmoke = ResmokeIdle
    /\ stepdown = StepdownIdle
    /\ report = ReportIdle
    /\ \E info \in ReportInfos(1), dynamic \in BOOLEAN, prior \in {NO_CODE, Code(RETURN_CODE_FAIL)},
          failure_status \in FailureStatuses :
          test_case = [pc |-> "run", info |-> info, before |-> info,
                       test_id |-> IF dynamic THEN DynamicId(1, 1) ELSE TestId(1),
                       dynamic |-> dynamic, failure_status |-> failure_status,
                       return_code |-> prior, exception |-> "none", result |-> "none",
                       pending |-> "none", raised |-> "none", started |-> FALSE, stops |-> 0]

\* _as_command and new_test_logger: they return, or one of them raises
TestRunSetup ==
    /\ test_case.pc = "run"
    /\ \E ok \in BOOLEAN :
          test_case' = [test_case EXCEPT !.pc = IF ok THEN "start_test" ELSE "except_other"]
    /\ UNCHANGED <<report, resmoke, stepdown, options, hook, teardown_calls, suite_hooks, epc,
                   idx, raised, num_repeats, last_execution, suite_report, test_report,
                   coordinator, queue, unfinished_tasks, fixture, jpc, cur, last, run_count,
                   faults>>

\* test_report.start_test(self.id(), ..., dynamic=self.dynamic)
TestRunStart ==
    /\ test_case.pc = "start_test"
    /\ test_case' = [test_case EXCEPT
                        !.info = record_test_start(@, test_case.test_id, test_case.dynamic),
                        !.started = TRUE,
                        !.pc = "run_test"]
    /\ UNCHANGED <<report, resmoke, stepdown, options, hook, teardown_calls, suite_hooks, epc,
                   idx, raised, num_repeats, last_execution, suite_report, test_report,
                   coordinator, queue, unfinished_tasks, fixture, jpc, cur, last, run_count,
                   faults>>

\* self.run_test(test_logger)
TestRunTest ==
    /\ test_case.pc = "run_test"
    /\ \E result \in RunTestResults :
          test_case' = [test_case EXCEPT
                           !.result = result,
                           !.return_code = test_return_code(result, @),
                           !.pc = CASE result = "pass" -> "pass_test"
                                    [] result = "TestFailure" -> "except_failure"
                                    [] result = "KeyboardInterrupt" -> "except_interrupt"
                                    [] OTHER -> "except_other"]
    /\ UNCHANGED <<report, resmoke, stepdown, options, hook, teardown_calls, suite_hooks, epc,
                   idx, raised, num_repeats, last_execution, suite_report, test_report,
                   coordinator, queue, unfinished_tasks, fixture, jpc, cur, last, run_count,
                   faults>>

\* test_report.pass_test(self.id(), self.return_code)
TestRunPass ==
    /\ test_case.pc = "pass_test"
    /\ test_case' = [test_case EXCEPT
                        !.info = record_test_success(@, test_case.test_id,
                                                     test_case.return_code),
                        !.pc = "finally"]
    /\ UNCHANGED <<report, resmoke, stepdown, options, hook, teardown_calls, suite_hooks, epc,
                   idx, raised, num_repeats, last_execution, suite_report, test_report,
                   coordinator, queue, unfinished_tasks, fixture, jpc, cur, last, run_count,
                   faults>>

\* `except errors.TestFailure`: fail_test, and the exception is kept
TestRunFail ==
    /\ test_case.pc = "except_failure"
    /\ test_case' = [test_case EXCEPT
                        !.info = record_test_failure(@, test_case.test_id,
                                                     test_case.return_code,
                                                     test_case.failure_status),
                        !.exception = "TestFailure",
                        !.pc = "finally"]
    /\ UNCHANGED <<report, resmoke, stepdown, options, hook, teardown_calls, suite_hooks, epc,
                   idx, raised, num_repeats, last_execution, suite_report, test_report,
                   coordinator, queue, unfinished_tasks, fixture, jpc, cur, last, run_count,
                   faults>>

\* `except KeyboardInterrupt: raise`
TestRunInterrupt ==
    /\ test_case.pc = "except_interrupt"
    /\ test_case' = [test_case EXCEPT !.pending = "KeyboardInterrupt", !.pc = "finally"]
    /\ UNCHANGED <<report, resmoke, stepdown, options, hook, teardown_calls, suite_hooks, epc,
                   idx, raised, num_repeats, last_execution, suite_report, test_report,
                   coordinator, queue, unfinished_tasks, fixture, jpc, cur, last, run_count,
                   faults>>

\* the bare `except:`: error_test, which raises ValueError when the report holds no
\* outcome of the id, and the exception is kept; no raise statement follows
TestRunError ==
    /\ test_case.pc = "except_other"
    /\ test_case' =
          IF lookup_raises(test_case.info, test_case.test_id)
          THEN [test_case EXCEPT !.pending = "ValueError", !.pc = "finally"]
          ELSE [test_case EXCEPT
                   !.info = record_test_error(@, test_case.test_id, test_case.return_code),
                   !.exception = "Other",
                   !.pc = "finally"]
    /\ UNCHANGED <<report, resmoke, stepdown, options, hook, teardown_calls, suite_hooks, epc,
                   idx, raised, num_repeats, last_execution, suite_report, test_report,
                   coordinator, queue, unfinished_tasks, fixture, jpc, cur, last, run_count,
                   faults>>

\* `finally: test_report.stop_test(self.id())`: an exception of stop_test replaces the
\* one that was propagating
TestRunFinally ==
    /\ test_case.pc = "finally"
    /\ test_case' =
          IF record_test_end_raises(test_case.info, test_case.test_id)
          THEN [test_case EXCEPT
                   !.raised = call_exception(lookup_raises(test_case.info, test_case.test_id),
                                             TRUE),
                   !.pc = "done"]
          ELSE [test_case EXCEPT
                   !.info = record_test_end(@, test_case.test_id),
                   !.stops = @ + 1,
                   !.raised = test_case.pending,
                   !.pc = "done"]
    /\ UNCHANGED <<report, resmoke, stepdown, options, hook, teardown_calls, suite_hooks, epc,
                   idx, raised, num_repeats, last_execution, suite_report, test_report,
                   coordinator, queue, unfinished_tasks, fixture, jpc, cur, last, run_count,
                   faults>>

TestCaseNext ==
    \/ TestRunSetup
    \/ TestRunStart
    \/ TestRunTest
    \/ TestRunPass
    \/ TestRunFail
    \/ TestRunInterrupt
    \/ TestRunError
    \/ TestRunFinally

TestCaseSpec == TestCaseInit /\ [][TestCaseNext]_vars

(***************************************************************************)
(* The executor with several jobs and repeated executions: the same        *)
(* actions as Spec, for the suite options that Spec leaves out.            *)
(***************************************************************************)
RepeatOptions ==
    {o \in [fail_fast : BOOLEAN, num_jobs : {MaxJobs}, num_repeats : {MaxRepeats},
            num_hooks : {0}, report_failure_status : {EVG_STATUS_FAIL}] : TRUE}

RepeatInit ==
    /\ options \in RepeatOptions
    /\ ExecutorStart
    /\ hook = HookIdle
    /\ report = ReportIdle
    /\ test_case = TestCaseIdle
    /\ resmoke = ResmokeIdle
    /\ stepdown = StepdownIdle

RepeatSpec == RepeatInit /\ [][Next]_vars

(***************************************************************************)
(* TestCaseHook (hooks/interface.py) with the hook test case it reuses,    *)
(* and the TestCase objects of the queue (executor._make_test_queue,       *)
(* Job._execute_test), for one job with one hook over the executions of a  *)
(* suite.  A test name is a sequence of characters; hook.calls counts the  *)
(* configure calls made on the hook test case.                             *)
(***************************************************************************)
MaxNameLen == 3
MaxHookTests == 2

\* the characters of a test name: letters, os.extsep and os.sep
NameChars == {"f", ".", "/"}

\* self.__class__.__name__ of the hook, and the ":" of the format string
HookClassName == <<"H">>

\* the paths of test files: non-empty, not ending in a separator
TestNames ==
    {n \in UNION {[1..k -> NameChars] : k \in 1..MaxNameLen} : n[Len(n)] # "/"}

\* str.rfind, counting from 1 (0: not found)
rfind(p, c) ==
    IF \E i \in 1..Len(p) : p[i] = c
    THEN CHOOSE i \in 1..Len(p) : p[i] = c /\ \A k \in (i + 1)..Len(p) : p[k] # c
    ELSE 0

\* os.path.basename
basename(test_name) == SubSeq(test_name, rfind(test_name, "/") + 1, Len(test_name))

\* os.path.splitext(p)[0]: the extension starts at the last dot that follows the last
\* separator, unless only dots precede it in the file name
splitext_root(p) ==
    LET sepIndex == rfind(p, "/")
        dotIndex == rfind(p, ".")
    IN IF dotIndex > sepIndex /\ \E i \in (sepIndex + 1)..(dotIndex - 1) : p[i] # "."
       THEN SubSeq(p, 1, dotIndex - 1)
       ELSE p

\* TestCase.short_name
short_name(test_name) == splitext_root(basename(test_name))

\* "{}:{}".format(test.basename(), self.__class__.__name__)
hook_test_name_of_basename(test_name) == basename(test_name) \o <<":">> \o HookClassName

\* "{}:{}".format(test.short_name(), self.__class__.__name__)
hook_test_name(test_name) == short_name(test_name) \o <<":">> \o HookClassName

\* testcases.make_test_case / TestCase.__init__
make_test_case(test_name) ==
    [test_name |-> test_name, is_configured |-> FALSE, return_code |-> NO_CODE]

\* `if not self.test_case_is_configured` of TestCaseHook.before_suite
hook_configures_always(test_case_is_configured) == TRUE

hook_configures(test_case_is_configured) == ~test_case_is_configured

\* `if self.hook_test_case.return_code != 0`
hook_stops(return_code) == return_code # Code(0)

HookInit ==
    /\ ExecutorInit
    /\ options = [fail_fast |-> FALSE, num_jobs |-> 1, num_repeats |-> 1, num_hooks |-> 0,
                  report_failure_status |-> EVG_STATUS_FAIL]
    /\ resmoke = ResmokeIdle
    /\ stepdown = StepdownIdle
    /\ report = ReportIdle
    /\ test_case = TestCaseIdle
    /\ \E tests \in UNION {[1..k -> TestNames] : k \in 1..MaxHookTests},
          repeats \in 1..MaxRepeats :
          hook = [pc |-> "make_test_queue", tests |-> tests, num_repeats |-> repeats,
                  queue |-> <<>>, test |-> make_test_case(tests[1]),
                  hook_test_case |-> make_test_case(HookClassName),
                  test_case_is_configured |-> FALSE, info |-> NewReportInfo,
                  raised |-> "none", calls |-> 0, ran |-> FALSE]

\* `while num_repeats > 0`: _make_test_queue builds a TestCase for every test name; a
\* TestReport is created for the job
HookMakeTestQueue ==
    /\ hook.pc = "make_test_queue"
    /\ hook' = IF hook.num_repeats > 0
               THEN [hook EXCEPT
                        !.queue = [i \in 1..Len(hook.tests) |-> make_test_case(hook.tests[i])],
                        !.info = NewReportInfo,
                        !.ran = FALSE,
                        !.pc = "before_suite"]
               ELSE [hook EXCEPT !.pc = "done"]
    /\ UNCHANGED <<report, test_case, resmoke, stepdown, options, teardown_calls, suite_hooks,
                   epc, idx, raised, num_repeats, last_execution, suite_report, test_report,
                   coordinator, queue, unfinished_tasks, fixture, jpc, cur, last, run_count,
                   faults>>

\* TestCaseHook.before_suite: configure raises RuntimeError on a configured test case
HookBeforeSuite ==
    /\ hook.pc = "before_suite"
    /\ hook' =
          IF hook_configures(hook.test_case_is_configured)
          THEN IF hook.hook_test_case.is_configured
               THEN [hook EXCEPT !.calls = @ + 1, !.raised = "RuntimeError", !.pc = "done"]
               ELSE [hook EXCEPT !.calls = @ + 1,
                                 !.hook_test_case.is_configured = TRUE,
                                 !.test_case_is_configured = TRUE,
                                 !.pc = "get"]
          ELSE [hook EXCEPT !.pc = "get"]
    /\ UNCHANGED <<report, test_case, resmoke, stepdown, options, teardown_calls, suite_hooks,
                   epc, idx, raised, num_repeats, last_execution, suite_report, test_report,
                   coordinator, queue, unfinished_tasks, fixture, jpc, cur, last, run_count,
                   faults>>

\* the job takes the next test of the queue, or the sentinel
HookGetTest ==
    /\ hook.pc = "get"
    /\ hook' = IF hook.queue = <<>>
               THEN [hook EXCEPT !.pc = "after_suite"]
               ELSE [hook EXCEPT !.test = Head(hook.queue), !.queue = Tail(hook.queue),
                                 !.ran = FALSE, !.pc = "execute_test"]
    /\ UNCHANGED <<report, test_case, resmoke, stepdown, options, teardown_calls, suite_hooks,
                   epc, idx, raised, num_repeats, last_execution, suite_report, test_report,
                   coordinator, queue, unfinished_tasks, fixture, jpc, cur, last, run_count,
                   faults>>

\* Job._execute_test up to the hooks' after_test: test.configure, then test(test_report)
HookExecuteTest ==
    /\ hook.pc = "execute_test"
    /\ IF hook.test.is_configured
       THEN hook' = [hook EXCEPT !.raised = "RuntimeError", !.pc = "done"]
       ELSE \E result \in TestResults :
               hook' = [hook EXCEPT
                           !.test.is_configured = TRUE,
                           !.test.return_code = test_return_code(result, NO_CODE),
                           !.info = TestCase_run(@, hook.test.test_name, FALSE, result,
                                                 NO_CODE, options.report_failure_status),
                           !.pc = "after_test"]
    /\ UNCHANGED <<report, test_case, resmoke, stepdown, options, teardown_calls, suite_hooks,
                   epc, idx, raised, num_repeats, last_execution, suite_report, test_report,
                   coordinator, queue, unfinished_tasks, fixture, jpc, cur, last, run_count,
                   faults>>

\* TestCaseHook.after_test: reset, the new test name, run, and the return code check
HookAfterTest ==
    /\ hook.pc = "after_test"
    /\ \E result \in TestResults :
          LET test_name == hook_test_name(hook.test.test_name)
              return_code == test_return_code(result, NO_CODE)
          IN hook' = [hook EXCEPT
                         !.hook_test_case.test_name = test_name,
                         !.hook_test_case.return_code = return_code,
                         !.info = TestCase_run(@, test_name, TRUE, result, NO_CODE,
                                               options.report_failure_status),
                         !.ran = TRUE,
                         !.raised = IF hook_stops(return_code) THEN "StopExecution"
                                    ELSE "none",
                         !.pc = IF hook_stops(return_code) THEN "done" ELSE "get"]
    /\ UNCHANGED <<report, test_case, resmoke, stepdown, options, teardown_calls, suite_hooks,
                   epc, idx, raised, num_repeats, last_execution, suite_report, test_report,
                   coordinator, queue, unfinished_tasks, fixture, jpc, cur, last, run_count,
                   faults>>

\* the hooks' after_suite, the end of the execution, `num_repeats -= 1`
HookAfterSuite ==
    /\ hook.pc = "after_suite"
    /\ hook' = [hook EXCEPT !.num_repeats = @ - 1, !.pc = "make_test_queue"]
    /\ UNCHANGED <<report, test_case, resmoke, stepdown, options, teardown_calls, suite_hooks,
                   epc, idx, raised, num_repeats, last_execution, suite_report, test_report,
                   coordinator, queue, unfinished_tasks, fixture, jpc, cur, last, run_count,
                   faults>>

HookNext ==
    \/ HookMakeTestQueue
    \/ HookBeforeSuite
    \/ HookGetTest
    \/ HookExecuteTest
    \/ HookAfterTest
    \/ HookAfterSuite

HookSpec == HookInit /\ [][HookNext]_vars

(***************************************************************************)
(* Properties.                                                             *)
(***************************************************************************)
\* the job's pipeline for its last test ran the test itself
Ran(j) == last[j].t # 0 /\ \E p \in 1..Len(last[j].calls) : last[j].calls[p][1] = "test"

\* the latest outcome job j's report holds for the queue's test t
Outcome(j, t) == test_report[j].test_infos[get_by_id(test_report[j], TestId(t))]

\* C1: in an execution without hooks that ends without any interruption, every test
\* was run exactly once and the combined report counts every test as succeeded,
\* failed or errored: num_succeeded + num_failed + num_errored = T
C1_EveryTestCounted ==
    (epc = "loop" /\ suite_report.executions # <<>> /\ options.num_hooks = 0) =>
        LET r == suite_report.executions[Len(suite_report.executions)]
        IN /\ \A t \in Tests : run_count[t] = 1
           /\ r.num_succeeded + r.num_failed + r.num_errored = NumTests

\* C2: whenever the main thread waits on the queue, the wait eventually returns
C2_JoinReturns == (epc = "wait_queue") ~> (epc = "join_threads")

\* a job stopped, the queue was drained and the join returned with tests left unexecuted
C2_Witness ==
    /\ epc = "join_threads"
    /\ coordinator.interrupted
    /\ unfinished_tasks = 0
    /\ \E t \in Tests : run_count[t] = 0

\* C3: with fail_fast, one job and no hooks, when the k-th outcome is a failure and the
\* earlier ones are successes, the report holds exactly k outcomes, those of the
\* tests 1..k, all ended; no later test was run; and the job returns with the
\* coordinator interrupted
C3_FailFastStopsAtFirstFailure ==
    (options.fail_fast /\ options.num_jobs = 1 /\ options.num_hooks = 0) =>
        \A k \in Tests :
            LET infos == test_report[1].test_infos
            IN (/\ Len(infos) >= k
                /\ infos[k].status = STATUS_FAIL
                /\ \A i \in 1..(k - 1) : infos[i].status = STATUS_SUCCESS)
               => /\ Len(infos) = k
                  /\ \A i \in 1..k : infos[i].test_id = TestId(i) /\ infos[i].end_time = SET
                  /\ \A t \in Tests : run_count[t] = (IF t <= k THEN 1 ELSE 0)
                  /\ jpc[1] \notin {"check", "get", "execute", "after_suite", "finally"}
                  /\ jpc[1] = "returned" => coordinator.interrupted

C3_Witness ==
    /\ options.fail_fast /\ options.num_jobs = 1 /\ options.num_hooks = 0
    /\ jpc[1] = "returned"
    /\ Len(test_report[1].test_infos) = 2
    /\ test_report[1].test_infos[1].status = STATUS_SUCCESS
    /\ test_report[1].test_infos[2].status = STATUS_FAIL
    /\ run_count[3] = 0
    /\ coordinator.interrupted

C5_CrashStopsJob ==
    \A j \in AllJobs :
        /\ (Ran(j) /\ ~last[j].inp.running)
           => /\ last[j].exc = "StopExecution"
              /\ jpc[j] = "interrupt"
              /\ \A p \in 1..Len(last[j].calls) : last[j].calls[p][1] # "after_test"
        /\ fixture[j] = "crashed" => jpc[j] \notin {"before_suite", "check", "get", "execute"}

C5_Witness ==
    \E j \in AllJobs :
        /\ ~options.fail_fast /\ options.num_hooks > 0
        /\ Ran(j) /\ ~last[j].inp.running
        /\ last[j].exc = "StopExecution"
        /\ last[j].t < NumTests

\* the job's report holds a failed outcome with this return code for the test
FailedOutcome(j, t, return_code) ==
    \E i \in 1..Len(test_report[j].test_infos) :
        /\ test_report[j].test_infos[i].test_id = TestId(t)
        /\ test_report[j].test_infos[i].status = STATUS_FAIL
        /\ test_report[j].test_infos[i].return_code = Code(return_code)

\* the positions of a job thread from which it can still take or run a test
Processing == {"before_suite", "check", "get", "execute"}

\* C6: a ServerFailure or StopExecution from a before_test or after_test hook ends the
\* test's pipeline in StopExecution and sends the job to its interruption handler, with
\* or without fail_fast; a TestFailure from a hook records a failed outcome for the
\* test, and the job stops if fail_fast is set and otherwise goes on (after a
\* before_test failure: runs the test; after an after_test failure: returns to the
\* loop); a job that entered its interruption handler never processes a test again
C6_HookFailures ==
    /\ [](\A j \in AllJobs :
            LET l == last[j]
                stopped == l.exc = "StopExecution" /\ jpc[j] = "interrupt"
            IN l.t # 0 =>
                 /\ (l.inp.b_exc \in {"ServerFailure", "StopExecution"}
                        \/ l.inp.a_out \in {"ServerFailure", "StopExecution"}) => stopped
                 /\ l.inp.b_exc = "TestFailure" =>
                        /\ FailedOutcome(j, l.t, RETURN_CODE_FAIL)
                        /\ IF options.fail_fast THEN stopped /\ ~Ran(j) ELSE Ran(j)
                 /\ l.inp.a_out = "TestFailure" =>
                        /\ Outcome(j, l.t).status = STATUS_FAIL
                        /\ Outcome(j, l.t).return_code = Code(RETURN_CODE_FAIL)
                        /\ IF options.fail_fast THEN stopped
                           ELSE l.exc = "none" /\ jpc[j] = "check")
    /\ [][\A j \in AllJobs :
            (jpc[j] \in {"interrupt", "drain_check", "drain_get", "finally_caught"})
                => jpc'[j] \notin Processing]_vars

\* without fail_fast: a before_test TestFailure after which the test ran, and then an
\* after_test ServerFailure that stopped the job with tests left in the queue
C6_Witness ==
    \E j \in AllJobs :
        /\ ~options.fail_fast
        /\ last[j].t # 0 /\ last[j].t < NumTests
        /\ last[j].inp.b_exc = "TestFailure"
        /\ Ran(j)
        /\ last[j].inp.a_out = "ServerFailure"
        /\ jpc[j] = "interrupt"

\* C7: a test a job has claimed is run to its end whatever the interrupted flag says;
\* a job that checks the flag once it is set leaves its loop; a job takes a test only
\* after a check that found the flag unset; and the step that sets the flag moves no
\* other job
C7_CooperativeStop ==
    [][\A j \in AllJobs :
          /\ (jpc[j] = "execute" /\ jpc'[j] # "execute")
                => /\ last'[j].t = cur[j]
                   /\ last'[j].inp.b_at = 0
                         => /\ run_count'[cur[j]] = run_count[cur[j]] + 1
                            /\ test_report'[j].test_infos[
                                   get_by_id(test_report'[j], TestId(cur[j]))].end_time = SET
          /\ (jpc[j] = "check" /\ coordinator.interrupted /\ jpc'[j] # "check")
                => jpc'[j] = "after_suite"
          /\ (jpc'[j] = "get" /\ jpc[j] # "get")
                => (jpc[j] = "check" /\ ~coordinator.interrupted)
          /\ (jpc'[j] = "execute" /\ jpc[j] # "execute") => jpc[j] = "get"
          /\ (~coordinator.interrupted /\ coordinator'.interrupted /\ jpc'[j] # jpc[j])
                => jpc[j] = "interrupt"]_vars

\* a job still runs its test after the job that set the flag has returned
C7_Witness ==
    \E i, j \in AllJobs :
        /\ i # j
        /\ coordinator.interrupted
        /\ jpc[i] = "returned"
        /\ jpc[j] = "execute"

\* the calls before_test H1..Hb, then the test if it ran, then after_test H1..Ha
OrderedCalls(b, ran, a) ==
    [p \in 1..b |-> <<"before_test", p>>]
        \o (IF ran THEN << <<"test", 0>> >> ELSE <<>>)
        \o [p \in 1..a |-> <<"after_test", p>>]

\* C8: the calls made for a test are before_test of H1, H2, ... in configured order,
\* then the test, then after_test of H1, H2, ... in the same order (not reversed);
\* every before_test call precedes the test and the test precedes every after_test
\* call; when no before_test raises all n of them are called, and when nothing goes
\* wrong the calls are before_test H1..Hn, the test, after_test H1..Hn
C8_HookOrder ==
    \A j \in AllJobs :
        last[j].t # 0 =>
            /\ \E b \in 0..options.num_hooks, a \in 0..options.num_hooks, ran \in BOOLEAN :
                  /\ last[j].calls = OrderedCalls(b, ran, a)
                  /\ last[j].inp.b_at = 0 => (b = options.num_hooks /\ ran)
                  /\ a > 0 => ran
            /\ last[j].inp = NominalInput
                  => last[j].calls = OrderedCalls(options.num_hooks, TRUE, options.num_hooks)

C8_Witness ==
    \E j \in AllJobs :
        /\ options.num_hooks = MaxHooks
        /\ last[j].calls = OrderedCalls(MaxHooks, TRUE, MaxHooks)

\* C9: no exception leaves Job.__call__: whatever a job's pipeline raises takes the job
\* to its interruption handler, the finally clause is never entered with an exception
\* propagating, and when the handler is done the coordinator is interrupted and the
\* queue is empty
C9_NothingEscapes ==
    \A j \in AllJobs :
        /\ jpc[j] \notin {"finally_raise", "escaped"}
        /\ (last[j].t # 0 /\ last[j].exc # "none") => jpc[j] = "interrupt"
        /\ jpc[j] = "finally_caught" => (coordinator.interrupted /\ queue = <<>>)

\* a job returned after a hook's unexpected exception and a failed teardown
C9_Witness ==
    \E j \in AllJobs :
        /\ jpc[j] = "returned"
        /\ coordinator.interrupted
        /\ coordinator.teardown_error
        /\ \E i \in 1..Len(test_report[j].test_infos) :
              test_report[j].test_infos[i].status \in {STATUS_ERROR, STATUS_TIMEOUT}

\* C10: no fixture is awaited while another has not been set up, and no job thread
\* is started before every fixture is ready
C10_FixturesBatched ==
    /\ (\E j \in Jobs : fixture[j] \notin {"unconfigured", "set_up"})
          => \A j \in Jobs : fixture[j] # "unconfigured"
    /\ (\E j \in Jobs : jpc[j] # "idle")
          => \A j \in Jobs : fixture[j] \notin {"unconfigured", "set_up"}

\* with two jobs: the first fixture is ready, the second set up and not yet awaited
C10_Witness ==
    /\ Cardinality(Jobs) = 2
    /\ fixture[1] = "ready"
    /\ fixture[2] = "set_up"
    /\ \A j \in Jobs : jpc[j] = "idle"

\* the executor ended on a FixtureError of its setup phase: _run never entered its loop
SetupFailed == epc = "finished" /\ raised = "FixtureError" /\ num_repeats = 0

\* C11: when setup() or await_ready() of a fixture raises FixtureError in the setup
\* phase, the suite ends with return code 2 and not interrupted, no job thread was
\* started, no execution was started or recorded, and no fixture was torn down
C11_SetupFailure ==
    SetupFailed =>
        /\ suite_report.return_code = 2
        /\ ~suite_report.interrupted
        /\ suite_report.executions = <<>>
        /\ suite_report.current_execution = NO_EXECUTION
        /\ \A j \in AllJobs : jpc[j] = "idle" /\ fixture[j] # "torn_down"
        /\ \A t \in Tests : run_count[t] = 0

\* await_ready of the second fixture failed after the first fixture became ready
C11_Witness ==
    /\ SetupFailed
    /\ Cardinality(Jobs) = 2
    /\ fixture[1] = "ready"
    /\ fixture[2] = "set_up"

\* C12: while nothing is interrupted, a fixture is torn down only in the last
\* iteration and only by its job's finally clause, after which the job has returned;
\* and when an iteration has ended and another one follows, every fixture is still
\* ready
C12_TeardownOnlyAtTheEnd ==
    /\ \A j \in Jobs :
          (fixture[j] = "torn_down" /\ ~coordinator.interrupted)
             => (last_execution /\ num_repeats <= 1 /\ jpc[j] = "returned")
    /\ (epc = "loop" /\ num_repeats >= 1 /\ suite_report.executions # <<>>)
          => \A j \in Jobs : fixture[j] = "ready"

\* two uninterrupted iterations: the fixture was torn down at the end of the second
C12_Witness ==
    /\ options.num_repeats = 2
    /\ Len(suite_report.executions) = 2
    /\ ~coordinator.interrupted
    /\ epc = "finished"
    /\ \A j \in Jobs : fixture[j] = "torn_down"

\* the sum of one counter over a sequence of reports
RECURSIVE SumField(_, _)
SumField(reports, field) ==
    IF reports = <<>> THEN 0 ELSE Head(reports)[field] + SumField(Tail(reports), field)

ReportCounters ==
    {"num_succeeded", "num_failed", "num_errored", "num_interrupted", "num_dynamic"}

\* C13: when the executor has finished without interruption or error, the suite report
\* holds exactly as many executions as the repeat option says, and every counter of
\* get_combined_report() is the sum of that counter over the executions
C13_CombinedIsSum ==
    (epc = "finished" /\ raised = "none") =>
        /\ Len(suite_report.executions) = options.num_repeats
        /\ \A field \in ReportCounters :
              get_combined_report(suite_report, test_report)[field]
                  = SumField(suite_report.executions, field)
        /\ Len(get_combined_report(suite_report, test_report).test_infos)
              = SumField([i \in 1..Len(suite_report.executions) |->
                             [n |-> Len(suite_report.executions[i].test_infos)]], "n")

\* two executions with failed, errored (counted as interrupted) and dynamic outcomes
C13_Witness ==
    /\ epc = "finished" /\ raised = "none"
    /\ options.num_repeats = 2
    /\ Len(suite_report.executions) = 2
    /\ suite_report.executions[1].num_failed > 0
    /\ suite_report.executions[2].num_dynamic > 0
    /\ get_combined_report(suite_report, test_report).num_succeeded
          > suite_report.executions[2].num_succeeded

\* an iteration ended (its execution is recorded) with the coordinator interrupted, and
\* the executor has finished
InterruptedAtIterationEnd ==
    /\ epc = "finished"
    /\ coordinator.interrupted
    /\ suite_report.executions # <<>>

\* C14: if the coordinator is interrupted when an iteration ends, the executor has
\* recorded that execution's end, runs no further iteration (the iteration counter is
\* not decremented and no execution is open), and the suite report is marked
\* interrupted with return code 130
C14_InterruptReported ==
    InterruptedAtIterationEnd =>
        /\ suite_report.current_execution = NO_EXECUTION
        /\ Len(suite_report.executions) = options.num_repeats - num_repeats + 1
        /\ suite_report.interrupted
        /\ suite_report.return_code = 130

\* the suite ran to completion, without fail-fast and without interruption, and at least
\* one test of some execution failed or errored
CompletedWithFailures ==
    /\ epc = "finished"
    /\ raised = "none"
    /\ ~options.fail_fast
    /\ ~coordinator.interrupted
    /\ \E i \in 1..Len(suite_report.executions) :
          \/ suite_report.executions[i].num_failed > 0
          \/ suite_report.executions[i].num_errored > 0

\* C15: a suite that ran to completion with at least one failed or errored test (no
\* fail-fast, no interruption) does not end with suite return code 0
C15_FailuresGiveNonZero ==
    CompletedWithFailures => suite_report.return_code # 0

\* the suites that ended so that resmoke stops: interrupted, or with a non-zero return
\* code under fail-fast
StoppingSuites ==
    {i \in resmoke.ran : \/ resmoke.reports[i].interrupted
                         \/ (resmoke.suites[i].fail_fast /\ resmoke.reports[i].return_code # 0)}

\* C16: when the process has exited and no executed suite stops resmoke, every suite was
\* executed and the exit code is the largest return code of the suites; when an
\* executed suite ended interrupted, or with a non-zero return code under fail-fast, it
\* is the last suite executed, no later suite has got a result, and the exit code is
\* that suite's return code
C16_ExitCode ==
    resmoke.pc = "exited" =>
        IF StoppingSuites = {}
        THEN /\ resmoke.ran = 1..Len(resmoke.suites)
             /\ \A i \in resmoke.ran : resmoke.reports[i].return_code <= resmoke.exit_code[1]
             /\ \E i \in resmoke.ran : resmoke.reports[i].return_code = resmoke.exit_code[1]
        ELSE \E i \in StoppingSuites :
                /\ resmoke.ran = 1..i
                /\ StoppingSuites = {i}
                /\ \A k \in (i + 1)..Len(resmoke.suites) :
                      resmoke.reports[k] = NewSuiteReport /\ resmoke.made[k] = NONE
                /\ resmoke.exit_code = Code(resmoke.reports[i].return_code)

\* three suites: the first ends with return code 2 without fail-fast, the second ends
\* with return code 2 under fail-fast, and the third is never executed
C16_Witness ==
    /\ resmoke.pc = "exited"
    /\ Len(resmoke.suites) = 3
    /\ ~resmoke.suites[1].fail_fast /\ resmoke.reports[1].return_code = 2
    /\ resmoke.suites[2].fail_fast /\ resmoke.reports[2].return_code = 2
    /\ ~resmoke.reports[2].interrupted
    /\ resmoke.ran = {1, 2}
    /\ resmoke.exit_code = Code(2)

\* the process exits with the largest return code after every suite ran to its end
C16_WitnessMax ==
    /\ resmoke.pc = "exited"
    /\ resmoke.ran = {1, 2, 3}
    /\ resmoke.reports[1].return_code = 0
    /\ resmoke.reports[2].return_code = 2
    /\ resmoke.reports[3].return_code = 0
    /\ resmoke.exit_code = Code(2)

\* C17: when an external connection string is configured, the fixture of every executor
\* that was constructed is of the no-op class, whatever class the suite names
C17_NoOpFixture ==
    (resmoke.pc # "idle" /\ resmoke.shell_conn_string) =>
        \A i \in resmoke.ran :
            resmoke.suites[i].has_tests => resmoke.made[i] = NOOP_FIXTURE_CLASS

\* the jobs that are in _drain_queue
Draining == {j \in Jobs : jpc[j] \in {"drain_check", "drain_get"}}

\* C18: no exception leaves a job, whatever the interleaving of the jobs' drains, and
\* task_done has been called exactly once for every item taken from the queue (the
\* unfinished count is the items still queued plus the tests being executed, so it is
\* never negative)
C18_ConcurrentDrain ==
    /\ \A j \in Jobs : jpc[j] \notin {"finally_raise", "escaped"}
    /\ unfinished_tasks = Len(queue) + Cardinality({j \in Jobs : jpc[j] = "execute"})
    /\ unfinished_tasks >= 0

\* job 1 saw a non-empty queue and is about to get, while job 2 has taken the items
\* left and is still in its drain
C18_Witness ==
    /\ jpc[1] = "drain_get"
    /\ jpc[2] = "drain_check"
    /\ Draining = {1, 2}
    /\ queue = <<>>
    /\ unfinished_tasks = 0

\* job 1 has found the queue emptied by job 2 and has stopped draining silently
C18_WitnessAfter ==
    /\ jpc[1] = "finally_caught"
    /\ jpc[2] = "drain_check"
    /\ queue = <<>>
    /\ epc = "wait_queue"

\* a job whose get in the drain finds the queue empty goes on to its finally clause
\* with no exception propagating
C18_RaceIsSilent ==
    [][\A j \in Jobs : (jpc[j] = "drain_get" /\ queue = <<>> /\ jpc'[j] # jpc[j])
                          => jpc'[j] = "finally_caught"]_vars

\* C19: after after_test has returned and until the next before_test resumes the thread,
\* the stepdown thread neither is inside a step-down (idle event cleared, replica sets
\* being stepped down) nor has stepped a primary down
C19_NoStepdownWhilePaused ==
    /\ stepdown.job # "idle" => ~stepdown.stepped_down_paused
    /\ (stepdown.job = "paused" /\ stepdown.tests > 0)
          => stepdown.thread \notin {"step_down", "set_idle"}

\* the thread of job j has ended (so joining it returns at once)
ThreadEnded(j) == jpc[j] \in {"returned", "escaped"}

\* C20: whenever reports are combined, by record_execution_end or by the summary of an
\* execution still in progress, the thread of every job whose report is combined has
\* ended
C20_CombineAfterJoin ==
    /\ epc = "record_end" => \A j \in current_jobs(suite_report) : ThreadEnded(j)
    /\ epc = "summarised" => \A j \in current_jobs(suite_report) : ThreadEnded(j)

\* job j's run is over: Job.__call__ has returned or an exception has left it
RunOver(j) == jpc[j] \in {"returned", "escaped"}

\* C21: within one job run, every hook's before_suite has been called (once) before the
\* job gets, checks for or executes any test, no after_suite is called before the loop
\* has ended, and when the run is over after a loop that ended without an exception,
\* every hook's after_suite has been called (once)
C21_SuiteHooksOnce ==
    \A j \in Jobs :
        /\ jpc[j] \in {"check", "get", "execute"} =>
              /\ suite_hooks[j].before = options.num_hooks
              /\ suite_hooks[j].after = 0
        /\ suite_hooks[j].after > 0 => suite_hooks[j].loop_ended
        /\ (RunOver(j) /\ suite_hooks[j].loop_ended) =>
              suite_hooks[j].after = options.num_hooks

\* the part of C21 that does not depend on the after_suite calls themselves: before_suite
\* of every hook precedes the loop, and after_suite is called only after the loop
C21_SuiteHooksOrdered ==
    \A j \in Jobs :
        /\ jpc[j] \in {"check", "get", "execute"} =>
              /\ suite_hooks[j].before = options.num_hooks
              /\ suite_hooks[j].after = 0
        /\ suite_hooks[j].after > 0 => suite_hooks[j].loop_ended
        /\ (RunOver(j) /\ suite_hooks[j].loop_ended) => suite_hooks[j].after >= 1
                                                          \/ options.num_hooks = 0

\* the last call on the report was record_test_end for a test id that had no outcome
StopOfUnknown ==
    /\ report.op = "record_test_end"
    /\ get_by_id(report.before, report.test_id) = 0

\* the last call on the report was record_test_end for a test id whose latest outcome
\* was already stopped
StopOfStopped ==
    /\ report.op = "record_test_end"
    /\ get_by_id(report.before, report.test_id) # 0
    /\ report.before.test_infos[get_by_id(report.before, report.test_id)].end_time # NONE

\* C22: recording the stop of a test id that was never started raises, recording the
\* stop of an id whose latest outcome is already stopped raises, and in both cases the
\* outcomes and the counts are left as they were
C22_StopRaises ==
    /\ StopOfUnknown => (report.raised = "ValueError" /\ report.info = report.before)
    /\ StopOfStopped => (report.raised = "AssertionError" /\ report.info = report.before)

\* a second stop of a started, passed and stopped test
C22_Witness ==
    /\ StopOfStopped
    /\ report.raised = "AssertionError"
    /\ report.info.num_succeeded = 1
    /\ Len(report.info.test_infos) = 1

\* a stop of a test id without outcome, in a report that holds another test's outcome
C22_WitnessUnknown ==
    /\ StopOfUnknown
    /\ report.raised = "ValueError"
    /\ report.info.test_infos # <<>>

\* the outcomes of test_id that are in progress: started and not yet stopped
InProgress(info, test_id) ==
    {i \in 1..Len(info.test_infos) : /\ info.test_infos[i].test_id = test_id
                                     /\ info.test_infos[i].start_time # NONE
                                     /\ info.test_infos[i].end_time = NONE}

\* C23: after any sequence of calls, no test id has two outcomes in progress at the
\* same time
C23_OneInProgress ==
    report.op # "idle" =>
        \A test_id \in ReportTestIds : Cardinality(InProgress(report.info, test_id)) <= 1

\* C24: after any sequence of calls, the four counters equal the number of outcomes
\* that hold each status
C24_CountersMatchScan ==
    report.op # "idle" => report.info = recompute_nums(report.info)

\* C25: for all reports a, b and c, with or without pending outcomes,
\* combine([combine([a, b]), c]) has the same five counters as combine([a, b, c])
C25_CombineAssociative ==
    report.op = "combine" =>
        \A field \in ReportCounters : report.nested[field] = report.flat[field]

\* a, b and c each hold an outcome; one is pending, one is dynamic, one has failed
C25_Witness ==
    /\ report.op = "combine"
    /\ report.a.test_infos # <<>> /\ report.b.test_infos # <<>> /\ report.c.test_infos # <<>>
    /\ report.a.test_infos[1].status = NONE
    /\ report.b.num_dynamic = 1
    /\ report.c.num_failed = 1
    /\ report.flat.num_interrupted = 1
    /\ report.nested.num_dynamic = 1

\* the outcomes given to combine([a, b, c]), in order
CombinedInputs == report.a.test_infos \o report.b.test_infos \o report.c.test_infos

\* an outcome that was started, given no status and not stopped
Pending(test_info) ==
    test_info.start_time # NONE /\ test_info.status = NONE /\ test_info.end_time = NONE

Finalized(info) ==
    \A i \in 1..Len(info.test_infos) :
        /\ info.test_infos[i].end_time # NONE
        /\ info.test_infos[i].status
              \in {STATUS_SUCCESS, STATUS_FAIL, STATUS_ERROR, STATUS_TIMEOUT}

C27_RoundTrip ==
    (report.op = "from_dict" /\ Finalized(report.info)) =>
        /\ Len(report.copy.test_infos) = Len(report.info.test_infos)
        /\ \A i \in 1..Len(report.info.test_infos) :
              /\ report.copy.test_infos[i].status = report.info.test_infos[i].status
              /\ report.copy.test_infos[i].return_code = report.info.test_infos[i].return_code
              /\ report.copy.test_infos[i].start_time = report.info.test_infos[i].start_time
              /\ report.copy.test_infos[i].end_time = report.info.test_infos[i].end_time

\* what the round trip does keep: the evergreen status, the return code and the times
C27_RoundTripKeepsEvergreenStatus ==
    report.op = "from_dict" =>
        /\ Len(report.copy.test_infos) = Len(report.info.test_infos)
        /\ \A i \in 1..Len(report.info.test_infos) :
              /\ report.copy.test_infos[i].status = report.info.test_infos[i].evergreen_status
              /\ report.copy.test_infos[i].return_code = report.info.test_infos[i].return_code
              /\ report.copy.test_infos[i].start_time = report.info.test_infos[i].start_time
              /\ report.copy.test_infos[i].end_time = report.info.test_infos[i].end_time

\* C28: in every run of the executor, record_execution_start is called only when no
\* execution is in flight, and create_test_report and record_execution_end only when
\* one is: no assertion of SuiteReport fails
C28_ExecutionProtocol ==
    /\ (epc = "loop" /\ num_repeats > 0) => start_asserted(suite_report)
    /\ epc \in {"start_jobs", "record_end"} => in_flight_asserted(suite_report)
    /\ epc \in {"setup_fixtures", "loop"} => ~in_flight_asserted(suite_report)

\* the second execution of a suite is about to be recorded, after a first one that was
\* recorded and ended
C28_Witness ==
    /\ epc = "record_end"
    /\ Len(suite_report.executions) = 1
    /\ in_flight_asserted(suite_report)
    /\ num_repeats = 1

\* the latest outcome of the test of test_case in its report
LatestOutcome == test_case.info.test_infos[get_by_id(test_case.info, test_case.test_id)]

\* C29: when run_test raises an exception other than TestFailure, run records an error
\* outcome and re-raises the exception; when run_test raises TestFailure, run records a
\* fail outcome, keeps the exception in the exception field and returns
C29_OtherExceptionReraised ==
    test_case.pc = "done" =>
        /\ test_case.result = "Other" =>
              /\ LatestOutcome.status = STATUS_ERROR
              /\ test_case.raised = "Other"
        /\ test_case.result = "TestFailure" =>
              /\ LatestOutcome.status = STATUS_FAIL
              /\ test_case.exception = "TestFailure"
              /\ test_case.raised = "none"

\* what run does: both exceptions are recorded and kept, and run returns
C29_ExceptionKept ==
    test_case.pc = "done" =>
        /\ test_case.result = "Other" =>
              /\ LatestOutcome.status = STATUS_ERROR
              /\ test_case.exception = "Other"
              /\ test_case.raised = "none"
        /\ test_case.result = "TestFailure" =>
              /\ LatestOutcome.status = STATUS_FAIL
              /\ test_case.exception = "TestFailure"
              /\ test_case.raised = "none"

\* C30: on every path through run, the stop of the test is recorded exactly once and
\* only after its start was recorded
C30_StopRecordedOnce ==
    test_case.pc = "done" => (test_case.stops = 1 /\ test_case.started)

\* when the start was recorded, the stop is recorded exactly once
C30_StopAfterStart ==
    (test_case.pc = "done" /\ test_case.started) =>
        (test_case.stops = 1 /\ LatestOutcome.end_time # NONE)

\* the outcome that the hook's dynamic test recorded last
HookOutcome == hook.info.test_infos[Len(hook.info.test_infos)]

\* C31: after a TestCaseHook ran after a test, the dynamic test it recorded has the id
\* "<base-test-name>:<hook-class-name>" (after "foo.js": "foo.js:<HookClassName>"), and
\* a non-zero return code of that test raises StopExecution
C31_DynamicTestId ==
    (hook.pc \in {"get", "done"} /\ hook.ran) =>
        /\ HookOutcome.test_id = hook_test_name_of_basename(hook.test.test_name)
        /\ HookOutcome.dynamic
        /\ hook.hook_test_case.return_code # Code(0) => hook.raised = "StopExecution"

\* what the hook does: the id is built from the test's short name (without extension)
C31_DynamicTestIdOfShortName ==
    (hook.pc \in {"get", "done"} /\ hook.ran) =>
        /\ HookOutcome.test_id = short_name(hook.test.test_name) \o <<":">> \o HookClassName
        /\ HookOutcome.dynamic
        /\ hook.hook_test_case.return_code # Code(0) <=> hook.raised = "StopExecution"

\* C32: in any run with repeat >= 1, configure is never called a second time on the same
\* TestCase object: no RuntimeError is raised, the hook test case is configured once
C32_ConfigureOnce ==
    /\ hook.pc # "idle" => (hook.raised # "RuntimeError" /\ hook.calls <= 1)
    /\ hook.pc = "execute_test" => ~hook.test.is_configured

\* the second execution of a suite reaches a test, after the hook's second before_suite
C32_Witness ==
    /\ hook.pc = "execute_test"
    /\ hook.num_repeats = 1
    /\ hook.test_case_is_configured
    /\ hook.calls = 1
    /\ Len(hook.tests) = 2
    /\ hook.tests[1] = hook.tests[2]
    /\ hook.queue = <<>>

\* the run of the executor has ended after every fixture was set up and awaited, and
\* no job thread is running
RunEndedAfterSetup ==
    /\ epc = "finished"
    /\ \A j \in Jobs : fixture[j] \notin {"unconfigured", "set_up"}
    /\ \A j \in Jobs : jpc[j] \in {"idle", "returned", "escaped"}

\* C33: after fixture setup has succeeded, on every path by which the run ends with all
\* job threads finished, teardown(finished=True) was called exactly once on every fixture
C33_TeardownExactlyOnce ==
    RunEndedAfterSetup => \A j \in Jobs : teardown_calls[j] = 1

\* teardown is never called twice on a fixture
C33_TeardownAtMostOnce ==
    \A j \in AllJobs : teardown_calls[j] <= 1

\* C34: no fixture is operated on by another thread while its owning job is running a
\* test against it: the executor does not tear a fixture down while the job that owns it
\* is executing a test, also when the main thread is interrupted in a non-final iteration
C34_NoTeardownUnderRunningTest ==
    [][TeardownFixtures => jpc[idx] # "execute"]_vars

\* without an interrupt of the main thread, the executor tears a fixture down only after
\* its job's thread has ended
C34_TeardownAfterJoin ==
    [][TeardownFixtures => jpc[idx] \in {"idle", "returned", "escaped"}]_vars

\* the outcomes recorded for the test id in a report
OutcomesOfId(info, test_id) ==
    SelectSeq(info.test_infos, LAMBDA test_info : test_info.test_id = test_id)

\* C35: in a job's report for one execution, every non-dynamic test the job took from
\* the queue has at most one recorded outcome, on every path through the hook pipeline
C35_OneOutcomePerTest ==
    \A j \in Jobs : \A t \in Tests : Len(OutcomesOfId(test_report[j], TestId(t))) <= 1

\* a test never has more than two outcomes: the one of _fail_test and the one of its run
C35_AtMostTwoOutcomes ==
    \A j \in Jobs : \A t \in Tests : Len(OutcomesOfId(test_report[j], TestId(t))) <= 2

\* C36: if the teardown of a job's fixture fails in the final iteration (the job sets
\* teardown_error on the coordinator), the suite does not finish with return code 0
C36_TeardownErrorGivesNonZero ==
    (epc = "finished" /\ coordinator.teardown_error) => suite_report.return_code # 0

\* the teardown error is recorded on the coordinator only when a job tore its fixture
\* down, which it does in the final iteration
C36_TeardownErrorOnlyAtTheEnd ==
    coordinator.teardown_error =>
        (last_execution /\ \E j \in Jobs : teardown_calls[j] = 1)

\* the sentinels still in the queue
SentinelsLeft == Len(SelectSeq(queue, LAMBDA item : item = SENTINEL))

\* the jobs that took a sentinel in this execution (without an interruption, a job's
\* loop only ends on a sentinel)
TookSentinel == {j \in Jobs : suite_hooks[j].loop_ended}

\* C37: in an execution that is never interrupted, no job finds the queue empty on its
\* get_nowait and each of the N jobs takes exactly one sentinel, in every interleaving
C37_OneSentinelPerJob ==
    ~coordinator.interrupted =>
        /\ \A j \in Jobs : jpc[j] = "get" => queue # <<>>
        /\ epc \in {"wait_queue", "join_threads", "record_end"} =>
              SentinelsLeft + Cardinality(TookSentinel) = Cardinality(Jobs)
        /\ epc = "record_end" => (queue = <<>> /\ TookSentinel = Jobs)

\* two jobs have ended an execution that was not interrupted
C37_Witness ==
    /\ ~coordinator.interrupted
    /\ epc = "record_end"
    /\ Cardinality(Jobs) = 2
    /\ TookSentinel = Jobs
    /\ queue = <<>>
    /\ \A t \in Tests : run_count[t] = 1

\* C38: after_test always completes (pause() eventually returns in every interleaving,
\* also when the stepdown thread ends on an error in the middle of a step-down), and
\* after_suite's stop() always ends the thread
C38_PauseAndStopReturn ==
    /\ (stepdown.job = "pause_wait_idle") ~> (stepdown.job = "paused")
    /\ (stepdown.job = "join") ~> (stepdown.job = "done")

\* stop() always returns: the stopped thread is resumed and leaves its loop
C38_StopReturns ==
    (stepdown.job = "join") ~> (stepdown.job = "done" /\ stepdown.thread = "done")

\* C39: taking a snapshot of a live report and combining it leaves the live report
\* unchanged: an outcome in progress stays pending, with no end time
C39_SnapshotLeavesLiveReport ==
    report.op = "get_all_executions" => report.info = report.before

\* what the snapshot leaves alone: the number of outcomes, their ids and start times, the
\* counters, and every outcome that had been stopped with a status and a return code
C39_SnapshotKeepsStoppedOutcomes ==
    report.op = "get_all_executions" =>
        /\ Len(report.info.test_infos) = Len(report.before.test_infos)
        /\ \A field \in ReportCounters : report.info[field] = report.before[field]
        /\ \A i \in 1..Len(report.before.test_infos) :
              /\ report.info.test_infos[i].test_id = report.before.test_infos[i].test_id
              /\ report.info.test_infos[i].start_time = report.before.test_infos[i].start_time
              /\ (/\ report.before.test_infos[i].end_time # NONE
                  /\ report.before.test_infos[i].status # NONE
                  /\ report.before.test_infos[i].return_code # NO_CODE)
                    => report.info.test_infos[i] = report.before.test_infos[i]

\* the skipped counts of the summaries the program logs in this state: the summary of the
\* last execution once it is recorded, and the suite's summary once run() has returned
ShownSkipped ==
    (IF epc = "loop" THEN last_execution_skipped(NumTests, suite_report) ELSE {})
        \cup (IF epc \in {"finished", "summarised"}
              THEN summary_skipped(NumTests, get_all_executions(suite_report, test_report))
              ELSE {})

\* C40: the number of skipped tests shown in a summary, nb_tests + num_dynamic - num_run,
\* is never negative, the combined line of a suite executed several times included
C40_SkippedNeverNegative == \A n \in ShownSkipped : n >= 0

\* without hooks, the summary of the last execution and the per-execution lines of the
\* suite's summary show a number of skipped tests that is not negative
C40_ExecutionLineNotNegative ==
    options.num_hooks = 0 =>
        /\ epc = "loop" => \A n \in last_execution_skipped(NumTests, suite_report) : n >= 0
        /\ \A i \in 1..Len(suite_report.executions) :
              num_skipped(NumTests, suite_report.executions[i]) >= 0
=============================================================================
